---- MODULE Spec2Model ----
(***************************************************************************)
(* Model of D-LAN's DownloadManager                                        *)
(* (application/Core/DownloadManager/priv/DownloadManager.cpp).            *)
(*                                                                         *)
(* The queue 'downloads' is a sequence of Download objects.  An object is  *)
(* a record whose 'id' stands for its address: two Downloads are the same  *)
(* object iff their ids are equal.                                         *)
(*                                                                         *)
(* The specifications of the manager share the definitions:               *)
(*   SpecQueue   the handlers that mutate the queue, each run to its end   *)
(*               on the control context;                                   *)
(*   SpecPersist the same plus saveQueueToFile / loadQueueFromFile;        *)
(*   SpecSched   scanTheQueue passes on the control context, statement by  *)
(*               statement, interleaved with the downloader threads;       *)
(*   SpecDir     addDownload and newEntries, statement by statement, on    *)
(*               two contexts;                                             *)
(*   SpecCounter the accesses to numberOfDownload and to its mutex.        *)
(*                                                                         *)
(* The second part models the Directory of the file manager's cache        *)
(* (application/Core/FileManager/priv/Cache/Directory.cpp):                *)
(*   SpecCache    the operations on a tree of Directories, each run to its *)
(*                end;                                                     *)
(*   SpecThreads  the same operations statement by statement on two        *)
(*                threads, with the recursive mutex of each Directory;     *)
(*   SpecTeardown the scanner thread that enumerates a tree while the main *)
(*                thread holds the mutex of the cache and stops it.        *)
(***************************************************************************)
EXTENDS Integers, Sequences, FiniteSets, TLC

VARIABLES
   downloads,           \* DownloadManager::downloads (QList<Download*>)
   retrievingEntries,   \* DownloadManager::retrievingEntries
   numberOfDownload,    \* DownloadManager::numberOfDownload
   retrieving,          \* ids of the DirDownloads whose retrieveEntries request is outstanding
   started,             \* ids of the FileDownloads on which start() was called
   persisted,           \* the record Common::FILE_QUEUE of the persistent store
   loaded,              \* fileCacheLoaded was delivered to this manager
   savedFrom,           \* history: the queue that the last successful save wrote
   lastOp,              \* history: the handler that ran last, and how it ended
   env,                 \* which environment the manager runs in (see Pool)
   NUMBER_OF_DOWNLOADER, \* DownloadManager::NUMBER_OF_DOWNLOADER
   chunks,              \* the ChunkDownloads: status and current downloading peer
   occupiedPeersDownloadingChunk, \* DownloadManager::occupiedPeersDownloadingChunk
   connected,           \* the ChunkDownloads whose downloadFinished is connected
   timerActive,         \* DownloadManager::timer is running
   peerFree,            \* newFreePeer events queued for the manager's thread
   scan,                \* the locals of the scanTheQueue pass under way
   thread,              \* per ChunkDownload, where its downloader thread is
   ctx,                 \* per context, the locals of addDownload / newEntries
   mutexNumberOfDownload, \* DownloadManager::mutexNumberOfDownload: its holder
   directories,         \* the Directory objects: name, parent, subDirs, files, size
   files,               \* the File objects: size and directory
   mutex,               \* Directory::mutex of each Directory: holder and depth
   cacheMutex           \* the mutex of the Cache: its holder

mgrVars == <<downloads, retrievingEntries, numberOfDownload, retrieving, started>>
storeVars == <<persisted, loaded, savedFrom>>
schedVars == <<NUMBER_OF_DOWNLOADER, chunks, occupiedPeersDownloadingChunk,
               connected, timerActive, peerFree, scan, thread>>
cacheVars == <<mutexNumberOfDownload, directories, files, mutex, cacheMutex>>
vars == <<downloads, retrievingEntries, numberOfDownload, retrieving, started,
          persisted, loaded, savedFrom, lastOp, env,
          NUMBER_OF_DOWNLOADER, chunks, occupiedPeersDownloadingChunk,
          connected, timerActive, peerFree, scan, thread, ctx,
          mutexNumberOfDownload, directories, files, mutex, cacheMutex>>

----------------------------------------------------------------------------
(* Bounds of the model *)

MaxQueue == 3

(* Values *)

Entry(type, path, name, size) ==
   [type |-> type, path |-> path, name |-> name, size |-> size]

(* Five entries; every component of the key differs alone in some pair. *)
FileA  == Entry("FILE", "/", "a", 1)
FileA2 == Entry("FILE", "/", "a", 2)
FileB  == Entry("FILE", "/", "b", 1)
DirA   == Entry("DIR", "/", "a", 1)
DirDA  == Entry("DIR", "/d", "a", 1)

Offer(entry, peerSource, complete) ==
   [entry |-> entry, peerSource |-> peerSource, complete |-> complete]

(* What the environment may hand to addDownload, the listings a source peer
   may answer to retrieveEntries, and the entry of a record at which the
   replay of loadQueueFromFile may raise an exception (0: none). *)
QueuePool ==
   [offers |-> {Offer(FileA, "P1", FALSE), Offer(FileA, "P2", TRUE),
                Offer(FileA2, "P1", FALSE), Offer(FileB, "P2", FALSE),
                Offer(DirA, "P1", FALSE), Offer(DirDA, "P2", TRUE)},
    listings |-> {<<>>, <<FileA, FileB>>, <<FileA, FileA>>, <<DirDA, FileB>>,
                  <<FileA, FileB, FileA2>>},
    faults |-> {0}]

PersistPool ==
   [offers |-> {Offer(FileA, "P1", FALSE), Offer(FileB, "P2", FALSE),
                Offer(DirA, "P2", FALSE)},
    listings |-> {<<FileB>>},
    faults |-> 0..3]

(* DownloadManager's constants *)
FILE_QUEUE_VERSION == 1

(* The persistent store holds no record Common::FILE_QUEUE *)
Missing == [kind |-> "missing"]

(* The store holds a record that PersistentData::getValue cannot read *)
Unreadable == [kind |-> "unreadable"]

QueueEntry(entry, peer, complete) ==
   [entry |-> entry, peer_id |-> [hash |-> peer], complete |-> complete]

SavedQueue(version, entries) ==
   [kind |-> "record", version |-> version, entry |-> entries]

(* Records a manager may find in the store when it starts, besides none: one
   written by another version, one written by this version. *)
OldRecord == SavedQueue(FILE_QUEUE_VERSION - 1, <<QueueEntry(FileB, "P1", FALSE)>>)

StartRecord ==
   SavedQueue(FILE_QUEUE_VERSION,
              <<QueueEntry(FileA, "P1", TRUE), QueueEntry(DirA, "P2", FALSE),
                QueueEntry(FileA, "P2", FALSE)>>)

DirPool ==
   [offers |-> {Offer(DirA, "P1", FALSE), Offer(FileB, "P2", FALSE)},
    listings |-> {<<>>, <<DirDA, FileA>>},
    faults |-> {0}]

SchedPool ==
   [offers |-> {},
    listings |-> {<<>>, <<DirDA, FileB>>},
    faults |-> {0}]

Pool ==
   CASE env = "queue" -> QueuePool
     [] env = "dir" -> DirPool
     [] env = "sched" -> SchedPool
     [] OTHER -> PersistPool

----------------------------------------------------------------------------
(* The manager's fields as one value, so that a handler is a function of it *)

Mgr == [downloads |-> downloads, retrievingEntries |-> retrievingEntries,
        retrieving |-> retrieving, started |-> started]

SetMgr(m) ==
   /\ downloads' = m.downloads
   /\ retrievingEntries' = m.retrievingEntries
   /\ retrieving' = m.retrieving
   /\ started' = m.started

(* Only the equality of addresses is observable: once a handler has returned,
   the object at place i of the queue is given the address i, and the objects
   that are not queued the addresses after these. *)
Renamed(m) ==
   LET q == m.downloads
       queued == {q[i].id : i \in 1..Len(q)}
       others == (m.retrieving \cup m.started) \ queued
       name(id) == IF id \in queued
                   THEN CHOOSE i \in 1..Len(q) : q[i].id = id
                   ELSE Len(q) + Cardinality({o \in others : o <= id})
   IN [m EXCEPT !.downloads = [i \in 1..Len(q) |-> [q[i] EXCEPT !.id = i]],
                !.retrieving = {name(id) : id \in @},
                !.started = {name(id) : id \in @}]

EmptyMgr == [downloads |-> <<>>, retrievingEntries |-> FALSE,
             retrieving |-> {}, started |-> {}]

Ids(q) == {q[i].id : i \in 1..Len(q)}

(* The address of a newly allocated Download: one no live object has. *)
NewId(m) ==
   LET used == Ids(m.downloads) \cup m.retrieving
   IN CHOOSE n \in 1..(Cardinality(used) + 1) :
         /\ n \notin used
         /\ \A k \in 1..(n - 1) : k \in used

DirDownload(id, peerSource, entry) ==
   [id |-> id, entry |-> entry, peerSourceID |-> peerSource, complete |-> FALSE,
    status |-> "QUEUED"]

(* A FileDownload restored with complete = true is COMPLETE at once *)
FileDownload(id, peerSource, entry, complete) ==
   [id |-> id, entry |-> entry, peerSourceID |-> peerSource, complete |-> complete,
    status |-> IF complete THEN "COMPLETE" ELSE "QUEUED"]

(* QMutableListIterator::insert with 'pos' items before the cursor *)
InsertAt(q, pos, d) ==
   SubSeq(q, 1, pos) \o <<d>> \o SubSeq(q, pos + 1, Len(q))

RemoveAt(q, i) == SubSeq(q, 1, i - 1) \o SubSeq(q, i + 1, Len(q))

(* QMutableListIterator::findNext from the front: the index of the object, or 0 *)
findNext(q, id) ==
   LET hits == {i \in 1..Len(q) : q[i].id = id}
   IN IF hits = {} THEN 0 ELSE CHOOSE i \in hits : \A j \in hits : i <= j

(* QList::removeOne *)
removeOne(q, id) ==
   IF findNext(q, id) = 0 THEN q ELSE RemoveAt(q, findNext(q, id))

SameKey(e1, e2) ==
   /\ e1.type = e2.type
   /\ e1.path = e2.path
   /\ e1.name = e2.name
   /\ e1.size = e2.size

(* Mutants of isEntryAlreadyQueued: the loop looks at the first Download only;
   the loop skips the first Download. *)
isEntryAlreadyQueued_FirstOnly(q, entry) ==
   Len(q) >= 1 /\ SameKey(q[1].entry, entry)

isEntryAlreadyQueued_SkipsFirst(q, entry) ==
   \E i \in 2..Len(q) : SameKey(q[i].entry, entry)

isEntryAlreadyQueued(q, entry) ==
   \E i \in 1..Len(q) : SameKey(q[i].entry, entry)

FirstDir(q) ==
   LET dirs == {i \in 1..Len(q) : q[i].entry.type = "DIR"}
   IN IF dirs = {} THEN 0 ELSE CHOOSE i \in dirs : \A j \in dirs : i <= j

scanTheQueueToRetrieveEntries(m) ==
   IF m.retrievingEntries THEN m
   ELSE IF FirstDir(m.downloads) = 0 THEN m
   ELSE [m EXCEPT !.retrieving = @ \cup {m.downloads[FirstDir(m.downloads)].id},
                  !.retrievingEntries = TRUE]

(* addDownload(entry, peerSource, complete, iterator): 'pos' items precede
   the iterator. *)
addDownload(m, entry, peerSource, complete, pos) ==
   IF isEntryAlreadyQueued(m.downloads, entry) THEN m
   ELSE IF entry.type = "DIR"
   THEN scanTheQueueToRetrieveEntries(
           [m EXCEPT !.downloads =
               InsertAt(@, pos, DirDownload(NewId(m), peerSource, entry))])
   ELSE [m EXCEPT !.downloads =
            InsertAt(@, pos, FileDownload(NewId(m), peerSource, entry, complete)),
                  !.started = @ \cup {NewId(m)}]

(* Mutant of addDownload2: the iterator is left at the front *)
addDownload2_Front(m, entry, peerSource) ==
   addDownload(m, entry, peerSource, FALSE, 0)

(* addDownload(entry, peerSource): the iterator is moved toBack *)
addDownload2(m, entry, peerSource) ==
   addDownload(m, entry, peerSource, FALSE, Len(m.downloads))

(* addDownload(entry, peerSource, complete): the iterator is moved toBack *)
addDownload3(m, entry, peerSource, complete) ==
   addDownload(m, entry, peerSource, complete, Len(m.downloads))

(* The cursor the caller of addDownload holds after the call.  addDownload
   takes the iterator by value and inserts through its copy, so the caller's
   iterator refers to a list that was modified behind it: it may stay on its
   slot (the tail was shifted), sit one further (the head was shifted), or
   dangle (the array was reallocated) and then denote any place of the list. *)
CursorsAfter(before, after, pos) ==
   IF Len(after) = Len(before) THEN {pos} ELSE 0..Len(after)

(* The loop of newEntries over the received entries: the set of the states it
   may end in. *)
RECURSIVE addEntries(_, _, _, _, _)
addEntries(m, peerSource, entries, n, pos) ==
   IF n > Len(entries) THEN {m}
   ELSE LET m2 == addDownload(m, entries[n], peerSource, FALSE, pos)
        IN UNION {addEntries(m2, peerSource, entries, n + 1, q) :
                     q \in CursorsAfter(m.downloads, m2.downloads, pos)}

(* 'delete download': the object is gone, and so is what it had in flight;
   its destructor emits deleted(this). *)
downloadDeleted(m, id) ==
   [m EXCEPT !.downloads = removeOne(@, id)]

destroy(m, id) ==
   downloadDeleted([m EXCEPT !.retrieving = @ \ {id}, !.started = @ \ {id}], id)

(* Mutant of newEntries: the iterator is advanced once more before remove(),
   which then takes the Download after 'sender'. *)
newEntries_RemovesNext(m, sender, entries) ==
   LET m1 == [m EXCEPT !.retrievingEntries = FALSE]
       at == findNext(m1.downloads, sender)
       nxt == IF at < Len(m1.downloads) THEN at + 1 ELSE at
   IN IF at = 0 THEN {[m1 EXCEPT !.retrieving = @ \ {sender}]}
      ELSE LET dir == m1.downloads[at]
               m2 == [m1 EXCEPT !.downloads = RemoveAt(@, nxt)]
           IN {scanTheQueueToRetrieveEntries(destroy(m3, sender)) :
                  m3 \in addEntries(m2, dir.peerSourceID, entries, 1, nxt - 1)}

(* newEntries(entries) emitted by DirDownload 'sender': the states it may end
   in.  The request of 'sender' is answered; 'sender' stays allocated (and in
   'retrieving', which keeps its address from being given to a child) until
   it is deleted. *)
newEntries(m, sender, entries) ==
   LET m1 == [m EXCEPT !.retrievingEntries = FALSE]
       at == findNext(m1.downloads, sender)
   IN IF at = 0 THEN {[m1 EXCEPT !.retrieving = @ \ {sender}]}
      ELSE LET dir == m1.downloads[at]
               m2 == [m1 EXCEPT !.downloads = RemoveAt(@, at)]
           IN {scanTheQueueToRetrieveEntries(destroy(m3, sender)) :
                  m3 \in addEntries(m2, dir.peerSourceID, entries, 1, at - 1)}

----------------------------------------------------------------------------
(* Persistence *)

(* Download::populateEntry / FileDownload::populateEntry *)
populateEntry(d) == QueueEntry(d.entry, d.peerSourceID, d.complete)

(* The Common::Hash built from the bytes of peer_id.hash *)
Hash(peer_id) == peer_id.hash

(* The record saveQueueToFile hands to PersistentData::setValue *)
saveQueueToFile(q) ==
   SavedQueue(FILE_QUEUE_VERSION, [i \in 1..Len(q) |-> populateEntry(q[i])])

(* Mutant of replay: the entries are replayed with the two-argument
   addDownload, which takes no complete flag. *)
RECURSIVE replay_DropsComplete(_, _, _)
replay_DropsComplete(m, savedQueue, i) ==
   IF i > Len(savedQueue.entry) THEN m
   ELSE replay_DropsComplete(addDownload2(m, savedQueue.entry[i].entry,
                                          Hash(savedQueue.entry[i].peer_id)),
                             savedQueue, i + 1)

(* The loop of loadQueueFromFile over the entries of the record *)
RECURSIVE replay(_, _, _)
replay(m, savedQueue, i) ==
   IF i > Len(savedQueue.entry) THEN m
   ELSE replay(addDownload3(m, savedQueue.entry[i].entry,
                            Hash(savedQueue.entry[i].peer_id),
                            savedQueue.entry[i].complete),
               savedQueue, i + 1)

(* Mutant of loadQueueFromFile: the version of the record is not looked at *)
loadQueueFromFile_AnyVersion(m, store, raisedAt) ==
   IF store = Missing
   THEN [mgr |-> m, store |-> store, outcome |-> "missing"]
   ELSE IF store = Unreadable
   THEN [mgr |-> m, store |-> store, outcome |-> "readError"]
   ELSE [mgr |-> replay(m, store, 1), store |-> store, outcome |-> "replayed"]

(* loadQueueFromFile: the manager and the store it leaves.  getValue throws
   UnknownValueException when the record is missing and another exception
   when it cannot be read; the addDownload of entry 'raisedAt' throws (0:
   none does).  Both catch clauses only log. *)
loadQueueFromFile(m, store, raisedAt) ==
   IF store = Missing
   THEN [mgr |-> m, store |-> store, outcome |-> "missing"]
   ELSE IF store = Unreadable
   THEN [mgr |-> m, store |-> store, outcome |-> "readError"]
   ELSE IF store.version # FILE_QUEUE_VERSION
   THEN [mgr |-> m, store |-> Missing, outcome |-> "versionMismatch"]
   ELSE IF raisedAt \in 1..Len(store.entry)
   THEN [mgr |-> replay(m, [store EXCEPT !.entry = SubSeq(@, 1, raisedAt - 1)], 1),
         store |-> store, outcome |-> "replayError"]
   ELSE [mgr |-> replay(m, store, 1), store |-> store, outcome |-> "replayed"]

----------------------------------------------------------------------------
(* Actions: a handler run to its end on the control context *)

Op(op, result, arg) == [op |-> op, result |-> result, arg |-> arg]

AddDownload2(entry, peerSource) ==
   /\ Len(downloads) < MaxQueue
   /\ SetMgr(Renamed(addDownload2(Mgr, entry, peerSource)))
   /\ lastOp' = Op("addDownload",
                   IF isEntryAlreadyQueued(downloads, entry) THEN "rejected" ELSE "added",
                   <<entry, peerSource, FALSE>>)
   /\ UNCHANGED <<numberOfDownload, persisted, loaded, savedFrom, env, cacheVars, schedVars, ctx>>

AddDownload3(entry, peerSource, complete) ==
   /\ Len(downloads) < MaxQueue
   /\ SetMgr(Renamed(addDownload3(Mgr, entry, peerSource, complete)))
   /\ lastOp' = Op("addDownload",
                   IF isEntryAlreadyQueued(downloads, entry) THEN "rejected" ELSE "added",
                   <<entry, peerSource, complete>>)
   /\ UNCHANGED <<numberOfDownload, persisted, loaded, savedFrom, env, cacheVars, schedVars, ctx>>

NewEntries(sender, entries) ==
   /\ sender \in retrieving
   /\ \E m \in newEntries(Mgr, sender, entries) : SetMgr(Renamed(m))
   /\ lastOp' = Op("newEntries", IF entries = <<>> THEN "empty" ELSE "children", <<>>)
   /\ UNCHANGED <<numberOfDownload, persisted, loaded, savedFrom, env, cacheVars, schedVars, ctx>>

DownloadDeleted(id) ==
   /\ id \in Ids(downloads)
   /\ SetMgr(Renamed(destroy(Mgr, id)))
   /\ lastOp' = Op("downloadDeleted", "", <<>>)
   /\ UNCHANGED <<numberOfDownload, persisted, loaded, savedFrom, env, cacheVars, schedVars, ctx>>

(* The retrieveEntries request of DirDownload 'id' fails: newEntries is not
   emitted for it and the manager is told nothing *)
RetrieveEntriesFailed(id) ==
   /\ id \in retrieving
   /\ retrieving' = retrieving \ {id}
   /\ lastOp' = Op("retrieveEntriesFailed", "", <<id>>)
   /\ UNCHANGED <<downloads, retrievingEntries, started, numberOfDownload,
                  persisted, loaded, savedFrom, env, cacheVars, schedVars, ctx>>

(* fileCacheLoaded, which the file manager emits once *)
FileCacheLoaded ==
   /\ ~loaded
   /\ loaded' = TRUE
   /\ \E raisedAt \in Pool.faults :
         LET r == loadQueueFromFile(Mgr, persisted, raisedAt)
         IN /\ SetMgr(Renamed(r.mgr))
            /\ persisted' = r.store
            /\ lastOp' = Op("fileCacheLoaded",
                            IF r.outcome = "replayed" /\ downloads = <<>>
                            THEN "replayedIntoEmpty" ELSE r.outcome,
                            <<Len(downloads)>>)
   /\ UNCHANGED <<numberOfDownload, savedFrom, env, cacheVars, schedVars, ctx>>

(* A FileDownload finishes its last chunk: its status becomes COMPLETE *)
FileCompleted(id) ==
   /\ \E i \in 1..Len(downloads) :
         /\ downloads[i].id = id
         /\ downloads[i].entry.type = "FILE"
         /\ ~downloads[i].complete
         /\ downloads' = [downloads EXCEPT ![i].complete = TRUE,
                                            ![i].status = "COMPLETE"]
   /\ lastOp' = Op("fileCompleted", "", <<>>)
   /\ UNCHANGED <<retrievingEntries, numberOfDownload, retrieving, started,
                  persisted, loaded, savedFrom, env, cacheVars, schedVars, ctx>>

(* ~DownloadManager, then the next run of the program constructs a manager.
   PersistentData::setValue replaces the record, or throws
   PersistentDataIOException and leaves it. *)
Shutdown(written) ==
   /\ persisted' = IF written THEN saveQueueToFile(downloads) ELSE persisted
   /\ savedFrom' = IF written THEN [written |-> TRUE, queue |-> downloads] ELSE savedFrom
   /\ SetMgr(EmptyMgr)
   /\ numberOfDownload' = 0
   /\ loaded' = FALSE
   /\ lastOp' = Op("destructor", IF written THEN "saved" ELSE "ioError", <<>>)
   /\ UNCHANGED <<env, cacheVars, schedVars, ctx>>

NothingSaved == [written |-> FALSE, queue |-> <<>>]

(* The scheduling side of a manager whose queue holds no FileDownload *)
NoScheduling ==
   /\ NUMBER_OF_DOWNLOADER = 1
   /\ chunks = <<>>
   /\ occupiedPeersDownloadingChunk = {}
   /\ connected = {}
   /\ timerActive = FALSE
   /\ peerFree = 0
   /\ scan = <<>>
   /\ thread = <<>>

(* No Directory is modelled and no mutex is held *)
NoCache ==
   /\ mutexNumberOfDownload = "none"
   /\ directories = <<>>
   /\ files = <<>>
   /\ mutex = <<>>
   /\ cacheMutex = "none"

InitManager ==
   /\ NoScheduling
   /\ downloads = <<>>
   /\ retrievingEntries = FALSE
   /\ numberOfDownload = 0
   /\ retrieving = {}
   /\ started = {}
   /\ loaded = FALSE
   /\ lastOp = Op("constructor", "", <<>>)

InitQueue ==
   /\ InitManager
   /\ NoCache
   /\ persisted \in {Missing, StartRecord}
   /\ savedFrom = NothingSaved
   /\ env = "queue"
   /\ ctx = <<>>

NextQueue ==
   \/ \E o \in Pool.offers : AddDownload2(o.entry, o.peerSource)
   \/ \E o \in Pool.offers : AddDownload3(o.entry, o.peerSource, o.complete)
   \/ \E id \in retrieving, es \in Pool.listings : NewEntries(id, es)
   \/ \E id \in Ids(downloads) : DownloadDeleted(id)
   \/ FileCacheLoaded

SpecQueue == InitQueue /\ [][NextQueue]_vars

InitPersist ==
   /\ InitManager
   /\ NoCache
   /\ persisted \in {Missing, Unreadable, OldRecord, StartRecord}
   /\ savedFrom = NothingSaved
   /\ env = "persist"
   /\ ctx = <<>>

NextPersist ==
   \/ \E o \in Pool.offers : AddDownload2(o.entry, o.peerSource)
   \/ \E id \in retrieving, es \in Pool.listings : NewEntries(id, es)
   \/ \E id \in Ids(downloads) : DownloadDeleted(id)
   \/ \E id \in Ids(downloads) : FileCompleted(id)
   \/ FileCacheLoaded
   \/ \E written \in BOOLEAN : Shutdown(written)
   \/ \E id \in retrieving : RetrieveEntriesFailed(id)

SpecPersist == InitPersist /\ [][NextPersist]_vars

----------------------------------------------------------------------------
(* Scheduling: scanTheQueue on the control context and the downloader
   threads.

   newFreePeer is connected to peerNoLongerDownloadingChunk without a
   connection type, and the timer's timeout to scanTheQueue likewise: the slot
   runs on the thread the manager lives in, one event at a time, whichever
   thread emitted the signal.  downloadFinished is connected with
   Qt::DirectConnection: chunkDownloadFinished runs on the downloader thread
   that emits it, between any two statements of a pass. *)

MaxPeerFree == 2

ChunkDownload(file, peer) == [file |-> file, peer |-> peer, status |-> "IDLE"]

NoChunk == 0

IdleScan == [pc |-> "idle", numberOfDownloadCopy |-> 0, i |-> 0,
             chunkDownload |-> NoChunk]

(* Mutant of IsErrorStatus: a full disk is not of the error class *)
IsErrorStatus_OnlyCreate(status) ==
   status = "UNABLE_TO_CREATE_THE_FILE"

(* The statuses of the error class, 'getStatus() >= 0x20' *)
IsErrorStatus(status) ==
   status \in {"NO_SHARED_DIRECTORY_TO_WRITE", "NO_ENOUGH_FREE_SPACE",
               "UNABLE_TO_CREATE_THE_FILE"}

(* A chunk can be started: it is IDLE and its holder is not downloading *)
Eligible(c) ==
   /\ chunks[c].status = "IDLE"
   /\ chunks[c].peer \notin occupiedPeersDownloadingChunk

(* FileDownload::getAChunkToDownload: the first eligible chunk of the file,
   or null *)
getAChunkToDownload(d) ==
   LET cs == {c \in 1..Len(chunks) : chunks[c].file = d.id /\ Eligible(c)}
   IN IF IsErrorStatus(d.status) \/ cs = {} THEN NoChunk
      ELSE CHOOSE c \in cs : \A k \in cs : c <= k

(* Mutant of loopTest: the loop does not reach the last Download *)
loopTest_SkipsLast(i, numberOfDownloadCopy) ==
   i < Len(downloads) - 1 /\ numberOfDownloadCopy < NUMBER_OF_DOWNLOADER

(* Mutant of loopTest: the loop ignores the number of downloads *)
loopTest_NoLimit(i, numberOfDownloadCopy) ==
   i < Len(downloads)

(* Mutant of loopTest: the comparison with the limit is not strict *)
loopTest_AtMost(i, numberOfDownloadCopy) ==
   i < Len(downloads) /\ numberOfDownloadCopy <= NUMBER_OF_DOWNLOADER

(* 'i.hasNext() && numberOfDownloadCopy < NUMBER_OF_DOWNLOADER' *)
loopTest(i, numberOfDownloadCopy) ==
   i < Len(downloads) /\ numberOfDownloadCopy < NUMBER_OF_DOWNLOADER

schedFrame == <<downloads, retrievingEntries, retrieving, started, persisted,
                loaded, savedFrom, env, cacheVars, NUMBER_OF_DOWNLOADER, ctx>>

(* The top of scanTheQueue: the counter is read under the mutex *)
EnterScan ==
   scan' = [pc |-> "loop", numberOfDownloadCopy |-> numberOfDownload, i |-> 0,
            chunkDownload |-> NoChunk]

(* A queued newFreePeer is delivered: peerNoLongerDownloadingChunk *)
PeerNoLongerDownloadingChunk ==
   /\ scan.pc = "idle"
   /\ peerFree > 0
   /\ peerFree' = peerFree - 1
   /\ EnterScan
   /\ lastOp' = Op("scanTheQueue", "peerFree", <<>>)
   /\ UNCHANGED <<schedFrame, numberOfDownload, chunks,
                  occupiedPeersDownloadingChunk, connected, timerActive, thread>>

(* The single-shot timer fires: scanTheQueue *)
TimerTimeout ==
   /\ scan.pc = "idle"
   /\ timerActive
   /\ timerActive' = FALSE
   /\ EnterScan
   /\ lastOp' = Op("scanTheQueue", "timer", <<>>)
   /\ UNCHANGED <<schedFrame, numberOfDownload, chunks,
                  occupiedPeersDownloadingChunk, connected, peerFree, thread>>

(* One turn of the loop up to the connect, or the end of the pass *)
ScanNext ==
   /\ scan.pc = "loop"
   /\ IF ~loopTest(scan.i, scan.numberOfDownloadCopy)
      THEN /\ scan' = IdleScan
           /\ UNCHANGED <<timerActive, connected>>
      ELSE LET d == downloads[scan.i + 1]
               chunkDownload == getAChunkToDownload(d)
           IN IF d.entry.type # "FILE"
              THEN /\ scan' = [scan EXCEPT !.i = @ + 1]
                   /\ UNCHANGED <<timerActive, connected>>
              ELSE /\ timerActive' = (timerActive \/ IsErrorStatus(d.status))
                   /\ IF chunkDownload = NoChunk
                      THEN /\ scan' = [scan EXCEPT !.i = @ + 1]
                           /\ UNCHANGED connected
                      ELSE /\ connected' = connected \cup {chunkDownload}
                           /\ scan' = [scan EXCEPT !.i = @ + 1, !.pc = "start",
                                          !.chunkDownload = chunkDownload]
   /\ UNCHANGED <<schedFrame, numberOfDownload, chunks, lastOp,
                  occupiedPeersDownloadingChunk, peerFree, thread>>

(* 'chunkDownload->startDownloading()': the peer is reserved, the chunk is
   DOWNLOADING and its thread runs; false when the chunk cannot be started *)
StartDownloading ==
   /\ scan.pc = "start"
   /\ LET c == scan.chunkDownload
      IN IF Eligible(c)
         THEN /\ chunks' = [chunks EXCEPT ![c].status = "DOWNLOADING"]
              /\ occupiedPeersDownloadingChunk' =
                    occupiedPeersDownloadingChunk \cup {chunks[c].peer}
              /\ thread' = [thread EXCEPT ![c] = "running"]
              /\ scan' = [scan EXCEPT !.pc = "incr"]
         ELSE /\ scan' = [scan EXCEPT !.pc = "loop", !.chunkDownload = NoChunk]
              /\ UNCHANGED <<chunks, occupiedPeersDownloadingChunk, thread>>
   /\ lastOp' = Op("startDownloading", "", <<>>)
   /\ UNCHANGED <<schedFrame, numberOfDownload, connected, timerActive, peerFree>>

(* 'this->numberOfDownload++; numberOfDownloadCopy = this->numberOfDownload'
   under the mutex *)
Increment ==
   /\ scan.pc = "incr"
   /\ numberOfDownload' = numberOfDownload + 1
   /\ scan' = [scan EXCEPT !.pc = "loop", !.chunkDownload = NoChunk,
                           !.numberOfDownloadCopy = numberOfDownload + 1]
   /\ lastOp' = Op("increment", "", <<>>)
   /\ UNCHANGED <<schedFrame, chunks, occupiedPeersDownloadingChunk, connected,
                  timerActive, peerFree, thread>>

(* Mutant of ChunkDownloadFinished: the slot disconnects the sender and
   leaves the counter as it is *)
ChunkDownloadFinished_NoDecrement(c, verified) ==
   /\ thread[c] = "running"
   /\ chunks' = [chunks EXCEPT ![c].status = IF verified THEN "COMPLETE" ELSE "FAILED"]
   /\ connected' = connected \ {c}
   /\ thread' = [thread EXCEPT ![c] = "finished"]
   /\ lastOp' = Op("chunkDownloadFinished", "", <<>>)
   /\ UNCHANGED <<schedFrame, numberOfDownload, occupiedPeersDownloadingChunk,
                  timerActive, peerFree, scan>>

(* The thread of chunk c ends its transfer and emits downloadFinished:
   chunkDownloadFinished disconnects the sender and decrements under the
   mutex *)
ChunkDownloadFinished(c, verified) ==
   /\ thread[c] = "running"
   /\ chunks' = [chunks EXCEPT ![c].status = IF verified THEN "COMPLETE" ELSE "FAILED"]
   /\ IF c \in connected
      THEN /\ connected' = connected \ {c}
           /\ numberOfDownload' = numberOfDownload - 1
      ELSE UNCHANGED <<connected, numberOfDownload>>
   /\ thread' = [thread EXCEPT ![c] = "finished"]
   /\ lastOp' = Op("chunkDownloadFinished", "", <<>>)
   /\ UNCHANGED <<schedFrame, occupiedPeersDownloadingChunk, timerActive,
                  peerFree, scan>>

(* The thread of chunk c releases its peer, which queues newFreePeer for the
   manager, and ends; a FAILED chunk is IDLE again *)
SetPeerAsFree(c) ==
   /\ thread[c] = "finished"
   /\ peerFree < MaxPeerFree
   /\ occupiedPeersDownloadingChunk' = occupiedPeersDownloadingChunk \ {chunks[c].peer}
   /\ peerFree' = peerFree + 1
   /\ chunks' = [chunks EXCEPT ![c].status = IF @ = "FAILED" THEN "IDLE" ELSE @]
   /\ thread' = [thread EXCEPT ![c] = "none"]
   /\ lastOp' = Op("setPeerAsFree", "", <<>>)
   /\ UNCHANGED <<schedFrame, numberOfDownload, connected, timerActive, scan>>

(* newEntries delivered between two passes; the Downloads keep their
   addresses, which the chunks refer to *)
NewEntriesBetweenPasses(sender, entries) ==
   /\ scan.pc = "idle"
   /\ sender \in retrieving
   /\ \E m \in newEntries(Mgr, sender, entries) : SetMgr(m)
   /\ lastOp' = Op("newEntries", IF entries = <<>> THEN "empty" ELSE "children", <<>>)
   /\ UNCHANGED <<numberOfDownload, persisted, loaded, savedFrom, env, cacheVars, schedVars, ctx>>

(* A manager after start-up: three FileDownloads and a DirDownload are queued,
   the hashes of the files are known, the third Download may have no room on
   the disk, and a newFreePeer is queued. *)
InitSched ==
   /\ \E status \in {"QUEUED", "NO_ENOUGH_FREE_SPACE"} :
         downloads = <<FileDownload(1, "P1", FileA, FALSE),
                       DirDownload(2, "P1", DirA),
                       [FileDownload(3, "P2", FileA2, FALSE) EXCEPT !.status = status],
                       FileDownload(4, "P2", FileB, FALSE)>>
   /\ retrievingEntries = TRUE
   /\ retrieving = {2}
   /\ started = {1, 3, 4}
   /\ numberOfDownload = 0
   /\ persisted = Missing
   /\ loaded = TRUE
   /\ savedFrom = NothingSaved
   /\ lastOp = Op("constructor", "", <<>>)
   /\ env = "sched"
   /\ NUMBER_OF_DOWNLOADER \in 0..2
   /\ chunks = <<ChunkDownload(1, "P1"), ChunkDownload(1, "P3"),
                 ChunkDownload(3, "P2"), ChunkDownload(4, "P2")>>
   /\ occupiedPeersDownloadingChunk = {}
   /\ connected = {}
   /\ timerActive = FALSE
   /\ peerFree = 1
   /\ scan = IdleScan
   /\ thread = [c \in 1..Len(chunks) |-> "none"]
   /\ ctx = <<>>
   /\ NoCache

NextSched ==
   \/ PeerNoLongerDownloadingChunk
   \/ TimerTimeout
   \/ ScanNext
   \/ StartDownloading
   \/ Increment
   \/ \E c \in 1..Len(chunks), verified \in BOOLEAN : ChunkDownloadFinished(c, verified)
   \/ \E c \in 1..Len(chunks) : SetPeerAsFree(c)
   \/ \E id \in retrieving, es \in Pool.listings : NewEntriesBetweenPasses(id, es)

SpecSched == InitSched /\ [][NextSched]_vars

(* The manager's thread handles every event that is queued for it and goes
   on with a pass it has begun; a downloader thread that has emitted
   downloadFinished goes on to release its peer.  Nothing is assumed on how
   long a transfer lasts. *)
SchedFairness ==
   /\ WF_vars(PeerNoLongerDownloadingChunk)
   /\ WF_vars(TimerTimeout)
   /\ WF_vars(ScanNext)
   /\ WF_vars(StartDownloading)
   /\ WF_vars(Increment)
   /\ \A c \in 1..4 : WF_vars(SetPeerAsFree(c))

(* The scheduling of a queue that no listing changes *)
NextSchedFair ==
   \/ PeerNoLongerDownloadingChunk
   \/ TimerTimeout
   \/ ScanNext
   \/ StartDownloading
   \/ Increment
   \/ \E c \in 1..Len(chunks), verified \in BOOLEAN : ChunkDownloadFinished(c, verified)
   \/ \E c \in 1..Len(chunks) : SetPeerAsFree(c)

SpecSchedFair == InitSched /\ [][NextSchedFair]_vars /\ SchedFairness

----------------------------------------------------------------------------
(* Directory resolution on two contexts: the control context runs
   addDownload(entry, peerSource); a DirDownload emits newEntries from the
   hash-request context, and the connection is Qt::DirectConnection, so the
   slot runs there.  Neither retrievingEntries nor the queue is guarded: the
   statements of the two contexts interleave. *)

Contexts == {"ctl", "hash"}

NoCall == [kind |-> "none"]

IdleCtx == [pc |-> "idle", ret |-> "idle", call |-> NoCall, ne |-> NoCall]

(* The addresses the contexts hold: a DirDownload whose newEntries is
   running is allocated until it is deleted, and addDownload holds
   'newDownload' until it has connected it *)
Held ==
   {ctx[x].ne.sender : x \in {y \in Contexts : ctx[y].ne # NoCall}}
   \cup {ctx[x].call.newDownload : x \in {y \in Contexts : ctx[y].call.kind = "connect"}}

NewDownloadId == NewId([Mgr EXCEPT !.retrieving = @ \cup Held])

(* The place an iterator denotes that was positioned on the list 'seen' with
   'pos' items before it: any place, once the list was modified behind it *)
Cursors(seen, pos) ==
   IF downloads = seen THEN {pos} ELSE 0..Len(downloads)

dirFrame == <<numberOfDownload, persisted, loaded, savedFrom, env, cacheVars, schedVars>>

(* addDownload(entry, peerSource): 'i.toBack()' and the call *)
CallAddDownload(entry, peerSource) ==
   /\ ctx["ctl"].pc = "idle"
   /\ Len(downloads) < MaxQueue
   /\ ctx' = [ctx EXCEPT !["ctl"] =
                [pc |-> "add_check", ret |-> "idle", ne |-> NoCall,
                 call |-> [kind |-> "add", entry |-> entry, peerSource |-> peerSource,
                           complete |-> FALSE, pos |-> Len(downloads),
                           seen |-> downloads]]]
   /\ lastOp' = Op("addDownload", "", <<entry, peerSource, FALSE>>)
   /\ UNCHANGED <<mgrVars, dirFrame>>

(* 'if (this->isEntryAlreadyQueued(entry)) return' *)
AddCheck(x) ==
   /\ ctx[x].pc = "add_check"
   /\ ctx' = [ctx EXCEPT ![x].pc =
                IF isEntryAlreadyQueued(downloads, ctx[x].call.entry)
                THEN ctx[x].ret ELSE "add_insert",
                         ![x].call =
                IF isEntryAlreadyQueued(downloads, ctx[x].call.entry)
                THEN NoCall ELSE @]
   /\ UNCHANGED <<mgrVars, lastOp, dirFrame>>

(* The Download is created and inserted through the iterator; a
   FileDownload is started, a DirDownload is followed by
   scanTheQueueToRetrieveEntries; its deleted signal is connected after
   that (AddConnect).  The iterator of newEntries was copied into
   the call and is stale after the insertion. *)
AddInsert(x) ==
   /\ ctx[x].pc = "add_insert"
   /\ LET c == ctx[x].call
          id == NewDownloadId
          isDir == c.entry.type = "DIR"
          d == IF isDir THEN DirDownload(id, c.peerSource, c.entry)
               ELSE FileDownload(id, c.peerSource, c.entry, c.complete)
      IN \E pos \in Cursors(c.seen, c.pos) :
            /\ downloads' = InsertAt(downloads, pos, d)
            /\ started' = IF isDir THEN started ELSE started \cup {id}
            /\ \E after \in (IF ctx[x].ne = NoCall THEN {0} ELSE 0..(Len(downloads) + 1)) :
                  ctx' = [ctx EXCEPT
                     ![x].pc = IF isDir THEN "scan_check" ELSE "add_connect",
                     ![x].call = [kind |-> "connect", newDownload |-> id],
                     ![x].ne = IF @ = NoCall THEN @
                               ELSE [@ EXCEPT !.pos = after, !.seen = downloads']]
   /\ UNCHANGED <<retrievingEntries, retrieving, numberOfDownload, lastOp,
                  persisted, loaded, savedFrom, env, cacheVars, schedVars>>

(* The connections of the deleted signal of Download 'id' to downloadDeleted:
   the connect is the last statement of the addDownload that created it *)
deletedConnections(id) ==
   IF \E x \in Contexts : ctx[x].call.kind = "connect" /\ ctx[x].call.newDownload = id
   THEN 0 ELSE 1

(* Where scanTheQueueToRetrieveEntries returns to: the connect at the end
   of addDownload, or the caller of newEntries *)
scanReturn(x) ==
   IF ctx[x].call # NoCall THEN "add_connect" ELSE ctx[x].ret

(* The connect of newDownload's signal deleted to the slot downloadDeleted,
   Qt::DirectConnection, and the return of addDownload *)
AddConnect(x) ==
   /\ ctx[x].pc = "add_connect"
   /\ ctx' = [ctx EXCEPT ![x].pc = ctx[x].ret, ![x].call = NoCall]
   /\ UNCHANGED <<mgrVars, lastOp, dirFrame>>

(* 'if (this->retrievingEntries) return' *)
ScanCheck(x) ==
   /\ ctx[x].pc = "scan_check"
   /\ ctx' = [ctx EXCEPT ![x].pc = IF retrievingEntries THEN scanReturn(x)
                                   ELSE "scan_find"]
   /\ UNCHANGED <<mgrVars, lastOp, dirFrame>>

(* The loop up to 'dirDownload->retrieveEntries()' on the first DirDownload *)
ScanFind(x) ==
   /\ ctx[x].pc = "scan_find"
   /\ IF FirstDir(downloads) = 0
      THEN /\ ctx' = [ctx EXCEPT ![x].pc = scanReturn(x)]
           /\ UNCHANGED retrieving
      ELSE /\ retrieving' = retrieving \cup {downloads[FirstDir(downloads)].id}
           /\ ctx' = [ctx EXCEPT ![x].pc = "scan_set"]
   /\ UNCHANGED <<downloads, retrievingEntries, started, lastOp, dirFrame>>

(* 'this->retrievingEntries = true; break' *)
ScanSet(x) ==
   /\ ctx[x].pc = "scan_set"
   /\ retrievingEntries' = TRUE
   /\ ctx' = [ctx EXCEPT ![x].pc = scanReturn(x)]
   /\ UNCHANGED <<downloads, retrieving, started, lastOp, dirFrame>>

(* The request of 'sender' is answered and newEntries starts:
   'this->retrievingEntries = false' *)
EmitNewEntries(sender, entries) ==
   /\ ctx["hash"].pc = "idle"
   /\ sender \in retrieving
   /\ retrieving' = retrieving \ {sender}
   /\ retrievingEntries' = FALSE
   /\ ctx' = [ctx EXCEPT !["hash"] =
                [pc |-> "ne_find", ret |-> "idle", call |-> NoCall,
                 ne |-> [kind |-> "newEntries", sender |-> sender,
                         entries |-> entries, n |-> 1, pos |-> 0, seen |-> <<>>,
                         peerSource |-> ""]]]
   /\ lastOp' = Op("newEntries", IF entries = <<>> THEN "empty" ELSE "children", <<>>)
   /\ UNCHANGED <<downloads, started, dirFrame>>

(* 'if (!i.findNext(dirDownload)) return; i.remove()' *)
NewEntriesFind(x) ==
   /\ ctx[x].pc = "ne_find"
   /\ LET at == findNext(downloads, ctx[x].ne.sender)
      IN IF at = 0
         THEN /\ ctx' = [ctx EXCEPT ![x] = IdleCtx]
              /\ UNCHANGED downloads
         ELSE /\ downloads' = RemoveAt(downloads, at)
              /\ ctx' = [ctx EXCEPT ![x].pc = "ne_loop",
                                    ![x].ne.pos = at - 1,
                                    ![x].ne.seen = downloads',
                                    ![x].ne.peerSource = downloads[at].peerSourceID]
   /\ UNCHANGED <<retrievingEntries, retrieving, started, lastOp, dirFrame>>

(* The loop over the entries: the next addDownload(entry, peerSource, false,
   i), or the loop's end *)
NewEntriesLoop(x) ==
   /\ ctx[x].pc = "ne_loop"
   /\ LET ne == ctx[x].ne
      IN IF ne.n > Len(ne.entries)
         THEN ctx' = [ctx EXCEPT ![x].pc = "ne_delete"]
         ELSE ctx' = [ctx EXCEPT
                 ![x].pc = "add_check", ![x].ret = "ne_loop",
                 ![x].ne.n = @ + 1,
                 ![x].call = [kind |-> "add", entry |-> ne.entries[ne.n],
                              peerSource |-> ne.peerSource, complete |-> FALSE,
                              pos |-> ne.pos, seen |-> ne.seen]]
   /\ UNCHANGED <<mgrVars, lastOp, dirFrame>>

(* 'delete dirDownload', then scanTheQueueToRetrieveEntries *)
NewEntriesDelete(x) ==
   /\ ctx[x].pc = "ne_delete"
   /\ downloads' = removeOne(downloads, ctx[x].ne.sender)
   /\ retrieving' = retrieving \ {ctx[x].ne.sender}
   /\ ctx' = [ctx EXCEPT ![x] = [IdleCtx EXCEPT !.pc = "scan_check"]]
   /\ UNCHANGED <<retrievingEntries, started, lastOp, dirFrame>>

InitDir ==
   /\ InitManager
   /\ NoCache
   /\ persisted = Missing
   /\ savedFrom = NothingSaved
   /\ env = "dir"
   /\ ctx = [x \in Contexts |-> IdleCtx]

NextDir ==
   \/ \E o \in Pool.offers : CallAddDownload(o.entry, o.peerSource)
   \/ \E x \in Contexts : AddCheck(x)
   \/ \E x \in Contexts : AddInsert(x)
   \/ \E x \in Contexts : AddConnect(x)
   \/ \E x \in Contexts : ScanCheck(x)
   \/ \E x \in Contexts : ScanFind(x)
   \/ \E x \in Contexts : ScanSet(x)
   \/ \E id \in retrieving, es \in Pool.listings : EmitNewEntries(id, es)
   \/ \E x \in Contexts : NewEntriesFind(x)
   \/ \E x \in Contexts : NewEntriesLoop(x)
   \/ \E x \in Contexts : NewEntriesDelete(x)

SpecDir == InitDir /\ [][NextDir]_vars

----------------------------------------------------------------------------
(* Properties of the queue handlers *)

Downloading == {c \in 1..Len(chunks) : chunks[c].status = "DOWNLOADING"}

(* C1: in every reachable state, whatever the interleaving of the scanTheQueue
   passes (entered from a peer that became free, from the retry timer) with
   the chunkDownloadFinished callbacks of the downloader threads,
   numberOfDownload does not exceed NUMBER_OF_DOWNLOADER. *)
C1_CounterWithinLimit ==
   numberOfDownload <= NUMBER_OF_DOWNLOADER

(* The limit is reached by a pass that a freed peer started, after a chunk
   finished on its thread, while another thread is still running. *)
C1_Witness ==
   /\ numberOfDownload = NUMBER_OF_DOWNLOADER
   /\ scan.pc = "loop"
   /\ lastOp.op = "increment"
   /\ \E c \in 1..Len(chunks) : chunks[c].status = "COMPLETE"
   /\ \E c \in 1..Len(chunks) : thread[c] = "running"

(* C2: at every time numberOfDownload equals the number of ChunkDownloads
   that are DOWNLOADING, for every interleaving of startDownloading, the
   increment of scanTheQueue and the decrement of chunkDownloadFinished. *)
C2_CounterEqualsDownloading ==
   numberOfDownload = Cardinality(Downloading)

(* C3: numberOfDownload is never negative: no decrement of
   chunkDownloadFinished takes effect before the increment scanTheQueue
   makes for the same chunk. *)
C3_CounterNeverNegative ==
   numberOfDownload >= 0


KeyOf(e) == <<e.type, e.path, e.name, e.size>>

Triple(d) == <<d.entry, d.peerSourceID, d.complete>>

Triples(q) == [i \in 1..Len(q) |-> Triple(q[i])]

Without(q, id) == SelectSeq(q, LAMBDA d : d.id # id)

Queued(entry) == \E i \in 1..Len(downloads) : KeyOf(downloads[i].entry) = KeyOf(entry)

(* C4: no two Downloads of the queue have the same (type, path, name, size). *)
C4_NoDuplicateKeys ==
   \A i, j \in 1..Len(downloads) :
      i # j => KeyOf(downloads[i].entry) # KeyOf(downloads[j].entry)

(* C4's case: an entry was refused while the queue held others, one of them
   inserted by a directory resolution or a load. *)
C4_Witness ==
   /\ lastOp.op = "addDownload"
   /\ lastOp.result = "rejected"
   /\ Len(downloads) >= 2
   /\ \E i \in 1..Len(downloads) : Triple(downloads[i]) = <<FileB, "P1", FALSE>>

(* C5: addDownload of an entry whose key is queued, whatever its peer source
   and complete flag, leaves every field of the manager as it was. *)
C5_RejectedAddChangesNothing ==
   [][\A o \in Pool.offers :
         (/\ lastOp'.op = "addDownload"
          /\ lastOp'.arg[1] = o.entry
          /\ Queued(o.entry)
          /\ \/ AddDownload2(o.entry, o.peerSource)
             \/ AddDownload3(o.entry, o.peerSource, o.complete))
         => UNCHANGED mgrVars]_vars

(* C5's case: the refused entry came from another peer, with another complete
   flag, than the queued Download of the same key. *)
C5_Witness ==
   /\ lastOp.op = "addDownload"
   /\ lastOp.result = "rejected"
   /\ \E i \in 1..Len(downloads) :
         /\ downloads[i].entry = lastOp.arg[1]
         /\ downloads[i].peerSourceID # lastOp.arg[2]
         /\ downloads[i].complete # lastOp.arg[3]

DistinctKeys(entries) ==
   \A i, j \in 1..Len(entries) : i # j => KeyOf(entries[i]) # KeyOf(entries[j])

(* C6: at every time at most one DirDownload has a retrieveEntries request
   outstanding, for every interleaving of addDownload of DIR entries on the
   control context with newEntries delivered directly from the hash-request
   context. *)
C6_AtMostOneRetrieving ==
   Cardinality(retrieving) <= 1

(* C7: a DirDownload that resolves to children c1..ck, none of them queued,
   is replaced by c1..ck in the received order at its place. *)
C7_ChildrenInReceivedOrder ==
   [][\A id \in retrieving, es \in Pool.listings :
         (/\ lastOp'.op = "newEntries"
          /\ findNext(downloads, id) # 0
          /\ DistinctKeys(es)
          /\ \A n \in 1..Len(es) : ~Queued(es[n])
          /\ NewEntries(id, es))
         => LET p == findNext(downloads, id)
                q == Triples(downloads)
            IN Triples(downloads') =
                  SubSeq(q, 1, p - 1)
                  \o [n \in 1..Len(es) |-> <<es[n], downloads[p].peerSourceID, FALSE>>]
                  \o SubSeq(q, p + 1, Len(q))]_vars

(* C8: a DirDownload that resolves to no child is removed, and the other
   Downloads stay, in their order. *)
C8_EmptyDirectoryRemoved ==
   [][\A id \in retrieving :
         (lastOp'.op = "newEntries" /\ id \in Ids(downloads) /\ NewEntries(id, <<>>))
         => /\ Triples(downloads') = Triples(Without(downloads, id))
            /\ Len(downloads') = Len(downloads) - 1]_vars

(* C8's case: an empty listing arrived and other Downloads are queued. *)
C8_Witness ==
   /\ lastOp.op = "newEntries"
   /\ lastOp.result = "empty"
   /\ Len(downloads) >= 2

(* C9: the tail forms of addDownload put the new Download after all the
   queued ones; downloadDeleted removes the given Download and no other, and
   changes nothing for a Download that is not queued. *)
C9_OrderPreserved ==
   [][/\ \A o \in Pool.offers :
            /\ (/\ lastOp'.op = "addDownload"
                /\ lastOp'.arg = <<o.entry, o.peerSource, FALSE>>
                /\ ~Queued(o.entry)
                /\ AddDownload2(o.entry, o.peerSource))
               => Triples(downloads') =
                     Append(Triples(downloads), <<o.entry, o.peerSource, FALSE>>)
            /\ (/\ lastOp'.op = "addDownload"
                /\ lastOp'.arg = <<o.entry, o.peerSource, o.complete>>
                /\ ~Queued(o.entry)
                /\ AddDownload3(o.entry, o.peerSource, o.complete))
               => Triples(downloads') =
                     Append(Triples(downloads),
                            <<o.entry, o.peerSource,
                              o.entry.type = "FILE" /\ o.complete>>)
      /\ \A id \in Ids(downloads) :
            (lastOp'.op = "downloadDeleted" /\ DownloadDeleted(id))
            => /\ Triples(downloads') = Triples(Without(downloads, id))
               /\ Len(downloads') = Len(downloads) - 1
      /\ (lastOp'.op # "addDownload") =>
         \A id \in 1..(MaxQueue + 2) \ Ids(downloads) :
            downloadDeleted(Mgr, id) = Mgr]_vars

(* C9's case: a Download was appended to a queue that held others. *)
C9_Witness ==
   /\ lastOp.op = "addDownload"
   /\ lastOp.result = "added"
   /\ Len(downloads) = MaxQueue
   /\ Triple(downloads[MaxQueue]) = <<lastOp.arg[1], lastOp.arg[2], lastOp.arg[3]>>

(* C10: a queue saved by saveQueueToFile and loaded by loadQueueFromFile
   into an empty queue comes back with the same (entry, peer source,
   complete) triples in the same order. *)
C10_SaveLoadRoundTrip ==
   (/\ lastOp.op = "fileCacheLoaded"
    /\ lastOp.result = "replayedIntoEmpty"
    /\ savedFrom.written)
   => Triples(downloads) = Triples(savedFrom.queue)

(* C10's case: the saved queue held a completed file, a file not complete and
   a DirDownload. *)
C10_Witness ==
   /\ lastOp.op = "fileCacheLoaded"
   /\ lastOp.result = "replayedIntoEmpty"
   /\ savedFrom.written
   /\ \E i, j, k \in 1..Len(savedFrom.queue) :
         /\ savedFrom.queue[i].entry.type = "FILE" /\ savedFrom.queue[i].complete
         /\ savedFrom.queue[j].entry.type = "FILE" /\ ~savedFrom.queue[j].complete
         /\ savedFrom.queue[k].entry.type = "DIR"

(* C11: when the version of the persisted record is not FILE_QUEUE_VERSION,
   loadQueueFromFile removes the record from the store and adds no Download,
   whatever the record holds. *)
C11_VersionMismatchDiscards ==
   [][(/\ lastOp'.op = "fileCacheLoaded"
       /\ persisted \notin {Missing, Unreadable}
       /\ persisted.version # FILE_QUEUE_VERSION
       /\ FileCacheLoaded)
      => /\ persisted' = Missing
         /\ UNCHANGED mgrVars]_vars

(* C11's case: a record of another version, holding an entry, was found by
   a manager whose queue was not empty. *)
C11_Witness ==
   /\ lastOp.op = "fileCacheLoaded"
   /\ lastOp.result = "versionMismatch"
   /\ persisted = Missing
   /\ Len(downloads) >= 1

(* C12: when reading the record fails, because it is missing or because of
   any other error raised while it is read or replayed, the load into an
   empty queue leaves the queue empty: no Download of a partly replayed
   record stays queued. *)
C12_FailedLoadLeavesQueueEmpty ==
   (/\ lastOp.op = "fileCacheLoaded"
    /\ lastOp.result \in {"missing", "readError", "replayError"}
    /\ lastOp.arg = <<0>>)
   => downloads = <<>>

NothingStarted ==
   /\ numberOfDownload = 0
   /\ Downloading = {}
   /\ connected = {}
   /\ occupiedPeersDownloadingChunk = {}
   /\ \A c \in 1..Len(chunks) : thread[c] = "none"
   /\ scan.pc \in {"idle", "loop"}

(* C13: with NUMBER_OF_DOWNLOADER = 0 no chunk is ever started and
   numberOfDownload stays 0, while a queued DirDownload still has its
   request issued and is replaced by its children. *)
C13_ZeroDownloaders ==
   [][(NUMBER_OF_DOWNLOADER = 0) =>
         /\ NothingStarted
         /\ NothingStarted'
         /\ \A id \in retrieving, es \in Pool.listings :
               (lastOp'.op = "newEntries" /\ NewEntriesBetweenPasses(id, es))
               => /\ id \notin Ids(downloads')
                  /\ \A n \in 1..Len(es) : Queued(es[n])'
                  /\ FirstDir(downloads') # 0 => retrieving' # {}]_vars

(* C13's case: with no downloader, the pass of the queued newFreePeer has
   ended, and the children of the DirDownload are queued, among them a
   DirDownload that was given its request. *)
C13_Witness ==
   /\ NUMBER_OF_DOWNLOADER = 0
   /\ peerFree = 0
   /\ scan.pc = "idle"
   /\ lastOp.op = "newEntries"
   /\ lastOp.result = "children"
   /\ Queued(DirDA)
   /\ retrieving # {}
   /\ \E c \in 1..Len(chunks) : Eligible(c)

(* C18: a FileDownload whose status is of the error class arms the
   single-shot timer and does not end the pass, which goes on to the next
   Download with the same budget; the timeout of the timer runs scanTheQueue
   again. *)
C18_ErrorStatusArmsTimer ==
   [][/\ (/\ ScanNext
          /\ scan.i < Len(downloads)
          /\ scan.numberOfDownloadCopy < NUMBER_OF_DOWNLOADER
          /\ downloads[scan.i + 1].entry.type = "FILE"
          /\ downloads[scan.i + 1].status = "NO_ENOUGH_FREE_SPACE")
         => /\ timerActive'
            /\ scan'.pc = "loop"
            /\ scan'.i = scan.i + 1
            /\ scan'.numberOfDownloadCopy = scan.numberOfDownloadCopy
      /\ (timerActive /\ ~timerActive')
         => /\ scan.pc = "idle"
            /\ scan'.pc = "loop"
            /\ scan'.i = 0
            /\ scan'.numberOfDownloadCopy = numberOfDownload]_vars

(* C18's case: the third Download has no room on the disk, the timer is
   armed, and the same pass has got a chunk from the Download after it. *)
C18_Witness ==
   /\ Len(downloads) >= 4
   /\ downloads[3].status = "NO_ENOUGH_FREE_SPACE"
   /\ timerActive
   /\ scan.pc = "start"
   /\ scan.i = 4
   /\ chunks[scan.chunkDownload].file = downloads[4].id
   /\ lastOp.op = "scanTheQueue"

(* C19: a pass visits the Downloads in the order of the queue, gets at most
   one chunk from each FileDownload, increments numberOfDownload only after
   a startDownloading that started the chunk, and ends without a further
   visit once the counter it last read is NUMBER_OF_DOWNLOADER. *)
C19_PassOrderAndBudget ==
   [][/\ ScanNext =>
            IF scan.numberOfDownloadCopy >= NUMBER_OF_DOWNLOADER \/ scan.i >= Len(downloads)
            THEN scan' = IdleScan /\ connected' = connected /\ timerActive' = timerActive
            ELSE /\ scan'.i = scan.i + 1
                 /\ Cardinality(connected' \ connected) <= 1
                 /\ \A c \in connected' \ connected :
                       chunks[c].file = downloads[scan.i + 1].id
                 /\ scan'.pc = "start" =>
                       chunks[scan'.chunkDownload].file = downloads[scan.i + 1].id
      /\ (scan.pc # "idle" /\ scan'.pc # "idle") => scan'.i = scan.i
                                                  \/ (ScanNext /\ scan'.i = scan.i + 1)
      /\ (scan'.pc = "incr" /\ scan.pc # "incr")
            => /\ thread[scan.chunkDownload] # "running"
               /\ thread'[scan.chunkDownload] = "running"
      /\ (numberOfDownload' > numberOfDownload)
            => /\ scan.pc = "incr"
               /\ numberOfDownload' = numberOfDownload + 1
               /\ scan'.numberOfDownloadCopy = numberOfDownload']_vars

(* C19's case: a pass has started a chunk of the first FileDownload, its
   counter has reached NUMBER_OF_DOWNLOADER, and it has ended before the
   FileDownloads behind, of which one has a chunk that could be started. *)
C19_Witness ==
   /\ NUMBER_OF_DOWNLOADER = 1
   /\ numberOfDownload = 1
   /\ scan = IdleScan
   /\ lastOp.op = "increment"
   /\ \E c \in 1..Len(chunks) : thread[c] = "running" /\ chunks[c].file = downloads[1].id
   /\ \E c \in 1..Len(chunks) : Eligible(c) /\ chunks[c].file # downloads[1].id

Running == {c \in 1..Len(chunks) : thread[c] = "running"}

(* C20: a chunk's chunkDownloadFinished comes before its peer is reported
   free: the peer is released by a chunk that is disconnected and counted
   no more, and a pass entered from peerNoLongerDownloadingChunk reads a
   counter that counts only the chunks whose threads are still running. *)
C20_DecrementBeforePeerFree ==
   [][/\ \A c \in 1..Len(chunks) :
            (thread[c] = "finished" /\ SetPeerAsFree(c)) => c \notin connected
      /\ PeerNoLongerDownloadingChunk
            => /\ scan'.numberOfDownloadCopy = Cardinality(Running)
               /\ numberOfDownload = Cardinality(Running)]_vars

(* C20's case: a pass entered from a peer that became free while another
   chunk is still being downloaded. *)
C20_Witness ==
   /\ lastOp.op = "scanTheQueue"
   /\ lastOp.result = "peerFree"
   /\ scan.pc = "loop"
   /\ scan.i = 0
   /\ scan.numberOfDownloadCopy = 1
   /\ \E c \in 1..Len(chunks) : chunks[c].status \in {"COMPLETE", "IDLE"} /\ c \notin connected
                                  /\ thread[c] = "none" /\ peerFree < MaxPeerFree
   /\ Cardinality(Running) = 1

(* An IDLE chunk of a FileDownload that can write, all of whose holders are
   occupied *)
Blocked(c) ==
   /\ chunks[c].status = "IDLE"
   /\ chunks[c].peer \in occupiedPeersDownloadingChunk
   /\ \E n \in 1..Len(downloads) :
         downloads[n].id = chunks[c].file /\ ~IsErrorStatus(downloads[n].status)

(* A chunk that could be started and is not: its holder is free, its
   FileDownload can write and the counter is below the limit *)
Waiting(c) ==
   /\ Eligible(c)
   /\ \E n \in 1..Len(downloads) :
         downloads[n].id = chunks[c].file /\ ~IsErrorStatus(downloads[n].status)
   /\ numberOfDownload < NUMBER_OF_DOWNLOADER

(* C14: a chunk that was blocked because its holder was occupied does not
   stay waiting afterwards: whenever its holder is free and numberOfDownload
   is below NUMBER_OF_DOWNLOADER, a pass that follows starts it, or starts
   chunks before it that use up the budget or its holder. *)
C14_BlockedChunkIsScheduled ==
   \A c \in 1..4 : [](Blocked(c) => []<>~Waiting(c))

(* C14's case: the fourth chunk was blocked while the third one, which has
   the same holder, was downloaded; the holder was released and a pass
   entered from that event has started the fourth chunk. *)
C14_Witness ==
   /\ chunks[3].status = "COMPLETE"
   /\ thread[3] = "none"
   /\ chunks[4].status = "DOWNLOADING"
   /\ thread[4] = "running"
   /\ scan.pc = "incr"
   /\ scan.chunkDownload = 4
   /\ peerFree = 0
   /\ ~timerActive

(* C15: the load of the queue triggers the scheduling: the step of
   fileCacheLoaded that replays a record with a FileDownload that is not
   complete begins a scanTheQueue pass, or queues the event or arms the timer
   that begins one. *)
C15_LoadRunsScanTheQueue ==
   [][(/\ lastOp'.op = "fileCacheLoaded"
       /\ lastOp'.result \in {"replayed", "replayedIntoEmpty"}
       /\ \E n \in 1..Len(downloads') :
             downloads'[n].entry.type = "FILE" /\ ~downloads'[n].complete)
      => ~UNCHANGED <<scan, peerFree, timerActive>>]_vars

(* C16: when the handler of newEntries returns, retrievingEntries is false
   only if the queue holds no DirDownload; otherwise the first DirDownload
   of the queue has been given a retrieveEntries request. *)
C16_RescanAfterNewEntries ==
   [][(/\ ctx["hash"].pc # "idle"
       /\ ctx'["hash"].pc = "idle"
       /\ FirstDir(downloads') # 0)
      => /\ retrievingEntries'
         /\ downloads'[FirstDir(downloads')].id \in retrieving']_vars

(* C17: after a retrieveEntries request has failed, the DirDownload is still
   queued and the next call of scanTheQueueToRetrieveEntries issues a
   request again. *)
C17_FailedRequestIsRetried ==
   (lastOp.op = "retrieveEntriesFailed")
   => /\ FirstDir(downloads) # 0
      /\ scanTheQueueToRetrieveEntries(Mgr).retrieving # {}

(* C23: whenever retrievingEntries is true, a DirDownload that is in the
   queue has a retrieveEntries request outstanding. *)
C23_FlagMeansRequestInFlight ==
   retrievingEntries => \E n \in 1..Len(downloads) : downloads[n].id \in retrieving

-----------------------------------------------------------------------------
(* The accesses to numberOfDownload, statement by statement: the control
   context in peerNoLongerDownloadingChunk and scanTheQueue, the downloader
   threads in chunkDownloadFinished.  mutexNumberOfDownload is "none" or the
   context that holds it. *)

(* An access to numberOfDownload by 'who' at 'line', and whether 'who' holds
   mutexNumberOfDownload at that moment *)
Access(who, what, line) ==
   Op("numberOfDownload", what, <<who, line, mutexNumberOfDownload = who>>)

(* The thread QThread of ChunkDownload c *)
Downloader(c) == <<"downloader 1", "downloader 2", "downloader 3", "downloader 4">>[c]

counterFrame == <<downloads, retrievingEntries, retrieving, started, persisted,
                  loaded, savedFrom, env, NUMBER_OF_DOWNLOADER, chunks,
                  occupiedPeersDownloadingChunk, connected, timerActive, ctx,
                  directories, files, mutex, cacheMutex>>

(* 'QMutexLocker lock(&this->mutexNumberOfDownload)' on the control context:
   before the snapshot, before the connect and before the increment *)
ManagerLocks ==
   /\ scan.pc \in {"lock_snapshot", "lock_connect", "lock_increment"}
   /\ mutexNumberOfDownload = "none"
   /\ mutexNumberOfDownload' = "manager"
   /\ scan' = [scan EXCEPT !.pc = CASE scan.pc = "lock_snapshot" -> "snapshot"
                                    [] scan.pc = "lock_connect" -> "connect"
                                    [] OTHER -> "increment"]
   /\ UNCHANGED <<counterFrame, numberOfDownload, peerFree, thread, lastOp>>

(* peerNoLongerDownloadingChunk: the L_DEBU line formats numberOfDownload,
   then scanTheQueue is called *)
LogFreePeer ==
   /\ scan.pc = "idle"
   /\ peerFree > 0
   /\ peerFree' = peerFree - 1
   /\ lastOp' = Access("manager", "log", 186)
   /\ scan' = [IdleScan EXCEPT !.pc = "lock_snapshot"]
   /\ UNCHANGED <<counterFrame, numberOfDownload, mutexNumberOfDownload, thread>>

(* 'numberOfDownloadCopy = this->numberOfDownload' and the end of the block *)
Snapshot ==
   /\ scan.pc = "snapshot"
   /\ lastOp' = Access("manager", "snapshot", 216)
   /\ scan' = [scan EXCEPT !.pc = "loop", !.numberOfDownloadCopy = numberOfDownload]
   /\ mutexNumberOfDownload' = "none"
   /\ UNCHANGED <<counterFrame, numberOfDownload, peerFree, thread>>

(* One turn of the for loop up to the block of the connect: a chunk of the
   next Download, or none, or the end of the pass *)
NextTurn ==
   /\ scan.pc = "loop"
   /\ IF ~(scan.i < Len(chunks) /\ scan.numberOfDownloadCopy < NUMBER_OF_DOWNLOADER)
      THEN scan' = IdleScan
      ELSE IF thread[scan.i + 1] = "none"
      THEN scan' = [scan EXCEPT !.i = @ + 1, !.pc = "lock_connect",
                                !.chunkDownload = scan.i + 1]
      ELSE scan' = [scan EXCEPT !.i = @ + 1]
   /\ UNCHANGED <<counterFrame, numberOfDownload, mutexNumberOfDownload, peerFree,
                  thread, lastOp>>

(* 'connect(chunkDownload.data(), ...)' under the mutex, then
   'chunkDownload->startDownloading()' *)
ConnectAndStart(ok) ==
   /\ scan.pc = "connect"
   /\ mutexNumberOfDownload' = "none"
   /\ IF ok
      THEN /\ thread' = [thread EXCEPT ![scan.chunkDownload] = "running"]
           /\ scan' = [scan EXCEPT !.pc = "lock_increment"]
      ELSE /\ scan' = [scan EXCEPT !.pc = "loop", !.chunkDownload = NoChunk]
           /\ UNCHANGED thread
   /\ UNCHANGED <<counterFrame, numberOfDownload, peerFree, lastOp>>

(* 'this->numberOfDownload++; numberOfDownloadCopy = this->numberOfDownload'
   and the end of the block *)
IncrementLocked ==
   /\ scan.pc = "increment"
   /\ lastOp' = Access("manager", "increment", 241)
   /\ numberOfDownload' = numberOfDownload + 1
   /\ scan' = [scan EXCEPT !.pc = "loop", !.chunkDownload = NoChunk,
                           !.numberOfDownloadCopy = numberOfDownload + 1]
   /\ mutexNumberOfDownload' = "none"
   /\ UNCHANGED <<counterFrame, peerFree, thread>>

(* chunkDownloadFinished on the thread of chunk c:
   'QMutexLocker lock(&this->mutexNumberOfDownload)' *)
FinishedLocks(c) ==
   /\ thread[c] = "running"
   /\ mutexNumberOfDownload = "none"
   /\ mutexNumberOfDownload' = Downloader(c)
   /\ thread' = [thread EXCEPT ![c] = "decrement"]
   /\ UNCHANGED <<counterFrame, numberOfDownload, peerFree, scan, lastOp>>

(* 'this->numberOfDownload--' and the end of chunkDownloadFinished *)
DecrementLocked(c) ==
   /\ thread[c] = "decrement"
   /\ lastOp' = Access(Downloader(c), "decrement", 256)
   /\ numberOfDownload' = numberOfDownload - 1
   /\ mutexNumberOfDownload' = "none"
   /\ thread' = [thread EXCEPT ![c] = "finished"]
   /\ UNCHANGED <<counterFrame, peerFree, scan>>

(* The thread of chunk c releases its peer and ends *)
ReleasePeer(c) ==
   /\ thread[c] = "finished"
   /\ peerFree < MaxPeerFree
   /\ peerFree' = peerFree + 1
   /\ thread' = [thread EXCEPT ![c] = "none"]
   /\ UNCHANGED <<counterFrame, numberOfDownload, mutexNumberOfDownload, scan, lastOp>>

InitCounter ==
   /\ InitSched
   /\ NUMBER_OF_DOWNLOADER >= 1

NextCounter ==
   \/ LogFreePeer
   \/ ManagerLocks
   \/ Snapshot
   \/ NextTurn
   \/ \E ok \in BOOLEAN : ConnectAndStart(ok)
   \/ IncrementLocked
   \/ \E c \in 1..Len(chunks) : FinishedLocks(c)
   \/ \E c \in 1..Len(chunks) : DecrementLocked(c)
   \/ \E c \in 1..Len(chunks) : ReleasePeer(c)

SpecCounter == InitCounter /\ [][NextCounter]_vars

(* C21: every access to numberOfDownload is made by the holder of
   mutexNumberOfDownload, and is the snapshot at the top of scanTheQueue,
   the increment after startDownloading or the decrement of
   chunkDownloadFinished. *)
C21_CounterOnlyUnderMutex ==
   (lastOp.op = "numberOfDownload")
   => /\ lastOp.arg[3]
      /\ lastOp.result \in {"snapshot", "increment", "decrement"}

(* C22: in every reachable state every Download of the queue has exactly
   one connection of its deleted signal to downloadDeleted, the states inside
   addDownload included. *)
C22_QueuedDownloadIsConnected ==
   \A n \in 1..Len(downloads) : deletedConnections(downloads[n].id) = 1

-----------------------------------------------------------------------------
(* The Directory of the file manager's cache.  'directories' is the sequence
   of the Directory objects and 'files' the sequence of the File objects; an
   object's index stands for its address, 0 for the null pointer.  A
   Directory is a record of its name, parent, subDirs, files and size; a
   File is a record of its size and of the Directory it belongs to (0 once
   it is deleted). *)

MaxDirectories == 4

MaxFiles == 2

DirNames == {"a", "b"}

FileSizes == {1, 2}

(* 'Directory(Cache* cache, const QString& name)': a root, without parent *)
Root(name) == [name |-> name, parent |-> 0, subDirs |-> <<>>, files |-> <<>>, size |-> 0]

(* The members of 'new Directory(parent, name)' before the body of the
   constructor runs *)
Directory(parent, name) ==
   [name |-> name, parent |-> parent, subDirs |-> <<>>, files |-> <<>>, size |-> 0]

Contains(list, x) == \E n \in 1..Len(list) : list[n] = x

(* QList::removeOne *)
RemoveOne(list, x) ==
   IF ~Contains(list, x) THEN list
   ELSE LET at == CHOOSE n \in 1..Len(list) : list[n] = x /\ \A k \in 1..(n - 1) : list[k] # x
        IN SubSeq(list, 1, at - 1) \o SubSeq(list, at + 1, Len(list))

(* 'Directory::operator+=': the size of d and of all its ancestors *)
RECURSIVE plus(_, _, _)
plus(ds, d, size) ==
   LET ds1 == [ds EXCEPT ![d].size = @ + size]
   IN IF ds[d].parent # 0 THEN plus(ds1, ds[d].parent, size) ELSE ds1

(* 'Directory::operator-=' *)
RECURSIVE minus(_, _, _)
minus(ds, d, size) ==
   LET ds1 == [ds EXCEPT ![d].size = @ - size]
   IN IF ds[d].parent # 0 THEN minus(ds1, ds[d].parent, size) ELSE ds1

(* 'Directory::getSubDir': the sub-directory of d named 'name', or 0 *)
getSubDir(ds, d, name) ==
   LET found == {n \in 1..Len(ds[d].subDirs) : ds[ds[d].subDirs[n]].name = name}
   IN IF found = {} THEN 0
      ELSE ds[d].subDirs[CHOOSE n \in found : \A k \in found : n <= k]

(* 'Directory::append' *)
append(ds, d, dir) == [ds EXCEPT ![d].subDirs = Append(@, dir)]

(* 'Directory::createSubDirectory' and 'physicallyCreateSubDirectory': the
   Directories afterwards; the new Directory, if any, is the last one *)
createSubDirectory(ds, d, name) ==
   IF getSubDir(ds, d, name) # 0 THEN ds
   ELSE append(Append(ds, Directory(d, name)), d, Len(ds) + 1)

(* 'Directory::addFile' *)
addFile(ds, fs, d, file) ==
   IF Contains(ds[d].files, file) THEN ds
   ELSE plus([ds EXCEPT ![d].files = Append(@, file)], d, fs[file].size)

(* 'Directory::fileDeleted' *)
fileDeleted(ds, fs, d, file) ==
   LET ds1 == minus(ds, d, fs[file].size)
   IN [ds1 EXCEPT ![d].files = RemoveOne(@, file)]

(* 'Directory::fileSizeChanged' *)
fileSizeChanged(ds, d, oldSize, newSize) == plus(ds, d, newSize - oldSize)

(* 'File::changeDirectory': the file belongs to 'dir' from now on *)
changeDirectory(fs, file, dir) == [fs EXCEPT ![file].dir = dir]

(* The loop 'foreach (Directory* d, dir->subDirs)' of stealContent over the
   sub-directories moved[n..] *)
RECURSIVE stealSubDirs(_, _, _, _, _)
stealSubDirs(ds, this, dir, moved, n) ==
   IF n > Len(moved) THEN ds
   ELSE LET d == moved[n]
            ds1 == [ds EXCEPT ![d].parent = this]
            ds2 == plus(ds1, this, ds1[d].size)
            ds3 == minus(ds2, dir, ds2[d].size)
        IN stealSubDirs(ds3, this, dir, moved, n + 1)

(* 'Directory::stealContent': the Directories and the Files afterwards *)
stealContent(ds, fs, this, dir) ==
   IF dir = this THEN [directories |-> ds, files |-> fs]
   ELSE LET ds1 == [ds EXCEPT ![this].subDirs = @ \o ds[dir].subDirs,
                              ![this].files = @ \o ds[dir].files]
            ds2 == stealSubDirs(ds1, this, dir, ds[dir].subDirs, 1)
            fs1 == [f \in 1..Len(fs) |->
                      IF Contains(ds[dir].files, f) THEN changeDirectory(fs, f, this)[f]
                      ELSE fs[f]]
        IN [directories |-> [ds2 EXCEPT ![dir].subDirs = <<>>, ![dir].files = <<>>],
            files |-> fs1]

(* The root of the tree of d *)
RECURSIVE getRoot(_, _)
getRoot(ds, d) == IF ds[d].parent # 0 THEN getRoot(ds, ds[d].parent) ELSE d

cacheFrame == <<mgrVars, storeVars, env, schedVars, ctx, mutexNumberOfDownload,
                mutex, cacheMutex>>

(* createSubDirectory(name) or physicallyCreateSubDirectory(name) on d *)
CreateSubDirectory(d, name) ==
   /\ getSubDir(directories, d, name) # 0 \/ Len(directories) < MaxDirectories
   /\ directories' = createSubDirectory(directories, d, name)
   /\ lastOp' = Op("createSubDirectory",
                   IF getSubDir(directories, d, name) # 0 THEN "existing" ELSE "created",
                   <<d, name>>)
   /\ UNCHANGED <<files, cacheFrame>>

(* A File of 'size' bytes is created in d: its constructor calls
   'dir->addFile(this)' *)
NewFile(d, size) ==
   /\ Len(files) < MaxFiles
   /\ files' = Append(files, [size |-> size, dir |-> d])
   /\ directories' = addFile(directories, files', d, Len(files) + 1)
   /\ lastOp' = Op("addFile", "added", <<d, Len(files) + 1>>)
   /\ UNCHANGED cacheFrame

(* addFile(file) on the Directory that holds 'file' already *)
AddFileAgain(file) ==
   /\ files[file].dir # 0
   /\ directories' = addFile(directories, files, files[file].dir, file)
   /\ lastOp' = Op("addFile",
                   IF Contains(directories[files[file].dir].files, file)
                   THEN "contained" ELSE "added",
                   <<files[file].dir, file>>)
   /\ UNCHANGED <<files, cacheFrame>>

(* 'file' is deleted: its destructor calls 'dir->fileDeleted(this)' *)
FileDeleted(file) ==
   /\ files[file].dir # 0
   /\ directories' = fileDeleted(directories, files, files[file].dir, file)
   /\ files' = [files EXCEPT ![file].dir = 0]
   /\ lastOp' = Op("fileDeleted", "", <<files[file].dir, file>>)
   /\ UNCHANGED cacheFrame

(* The size of 'file' becomes newSize: the File calls
   'dir->fileSizeChanged(oldSize, newSize)' *)
FileSizeChanged(file, newSize) ==
   /\ files[file].dir # 0
   /\ files[file].size # newSize
   /\ directories' = fileSizeChanged(directories, files[file].dir, files[file].size, newSize)
   /\ files' = [files EXCEPT ![file].size = newSize]
   /\ lastOp' = Op("fileSizeChanged", "", <<files[file].dir, file>>)
   /\ UNCHANGED cacheFrame

(* this->stealContent(dir): 'dir' is 'this' itself, or 'dir' is the second
   shared directory, which is merged into a Directory of the tree of the
   first one *)
StealContent(this, dir) ==
   /\ \/ dir = this
      \/ dir = 2 /\ getRoot(directories, this) = 1
   /\ LET after == stealContent(directories, files, this, dir)
      IN /\ directories' = after.directories
         /\ files' = after.files
   /\ lastOp' = Op("stealContent", IF dir = this THEN "self" ELSE "stolen", <<this, dir>>)
   /\ UNCHANGED cacheFrame

(* Two shared directories, both empty *)
InitCache ==
   /\ InitManager
   /\ persisted = Missing
   /\ savedFrom = NothingSaved
   /\ env = "cache"
   /\ ctx = <<>>
   /\ mutexNumberOfDownload = "none"
   /\ directories = <<Root("shared 1"), Root("shared 2")>>
   /\ files = <<>>
   /\ mutex = <<>>
   /\ cacheMutex = "none"

NextCache ==
   \/ \E d \in 1..Len(directories), name \in DirNames : CreateSubDirectory(d, name)
   \/ \E d \in 1..Len(directories), size \in FileSizes : NewFile(d, size)
   \/ \E file \in 1..Len(files) : AddFileAgain(file)
   \/ \E file \in 1..Len(files) : FileDeleted(file)
   \/ \E file \in 1..Len(files), newSize \in FileSizes : FileSizeChanged(file, newSize)
   \/ \E this \in 1..Len(directories), dir \in 1..Len(directories) : StealContent(this, dir)

SpecCache == InitCache /\ [][NextCache]_vars

RECURSIVE SumOfFiles(_, _)
SumOfFiles(list, n) ==
   IF n > Len(list) THEN 0 ELSE files[list[n]].size + SumOfFiles(list, n + 1)

RECURSIVE SumOfSubDirs(_, _)
SumOfSubDirs(list, n) ==
   IF n > Len(list) THEN 0 ELSE directories[list[n]].size + SumOfSubDirs(list, n + 1)

(* C25: the size of every Directory is the sum of the sizes of its files
   and of its sub-directories, after any sequence of addFile, fileDeleted,
   fileSizeChanged, creation of a sub-directory and stealContent. *)
C25_SizeIsSumOfContent ==
   \A d \in 1..Len(directories) :
      directories[d].size = SumOfFiles(directories[d].files, 1)
                            + SumOfSubDirs(directories[d].subDirs, 1)

-----------------------------------------------------------------------------
(* The operations of Directory statement by statement on two threads.
   mutex[d] is the recursive mutex of Directory d: its holder ("none" when
   free) and how many times the holder has locked it.  ctx[t] holds the
   locals of the call thread t is in. *)

Threads == {"main", "updater"}

FreeMutex == [owner |-> "none", depth |-> 0]

IdleThread == [pc |-> "idle", op |-> "", this |-> 0, name |-> "", subDir |-> 0,
               file |-> 0, ret |-> 0]

(* Mutant of CanLock: the mutex is not recursive *)
CanLock_NotRecursive(d, t) == mutex[d].owner = "none"

(* 'mutex(QMutex::Recursive)': thread t can lock the mutex of d when it is
   free or when t holds it *)
CanLock(d, t) == mutex[d].owner \in {"none", t}

(* QMutexLocker's constructor and destructor *)
Lock(m, d, t) == [m EXCEPT ![d] = [owner |-> t, depth |-> @.depth + 1]]

Unlock(m, d) ==
   [m EXCEPT ![d] = IF @.depth = 1 THEN FreeMutex ELSE [@ EXCEPT !.depth = @ - 1]]

(* A read or a write of the list 'list' of Directory d by thread t, and
   whether t holds the mutex of d at that moment *)
ListAccess(list, what, t, d) == Op(list, what, <<t, d, mutex[d].owner = t>>)

(* The statement a QMutexLocker on this->mutex is followed by *)
AfterLock(pc) ==
   CASE pc = "createSubDirectory" -> "getSubDir"
     [] pc = "getSubDir" -> "getSubDir_scan"
     [] pc = "append" -> "append_push"
     [] pc = "getFiles" -> "getFiles_copy"
     [] pc = "addFile" -> "addFile_body"
     [] OTHER -> "operator-=_body"

threadFrame == <<mgrVars, storeVars, env, schedVars, mutexNumberOfDownload, cacheMutex>>

(* Thread t calls createSubDirectory(name) or
   physicallyCreateSubDirectory(name) on the first shared directory *)
CallCreateSubDirectory(t, name, physically) ==
   /\ ctx[t].pc = "idle"
   /\ ctx' = [ctx EXCEPT ![t] =
                [IdleThread EXCEPT !.pc = "createSubDirectory",
                                   !.op = IF physically THEN "physicallyCreateSubDirectory"
                                          ELSE "createSubDirectory",
                                   !.this = 1, !.name = name]]
   /\ UNCHANGED <<directories, files, mutex, lastOp, threadFrame>>

(* Thread t calls getFiles() *)
CallGetFiles(t) ==
   /\ ctx[t].pc = "idle"
   /\ ctx' = [ctx EXCEPT ![t] = [IdleThread EXCEPT !.pc = "getFiles", !.op = "getFiles",
                                                   !.this = 1]]
   /\ UNCHANGED <<directories, files, mutex, lastOp, threadFrame>>

(* Thread t creates File 'file' in the first shared directory: the
   constructor calls addFile(this) *)
CallAddFile(t, file) ==
   /\ ctx[t].pc = "idle"
   /\ files[file].dir = 0
   /\ \A u \in Threads : ctx[u].file # file
   /\ files' = [files EXCEPT ![file].dir = 1]
   /\ ctx' = [ctx EXCEPT ![t] = [IdleThread EXCEPT !.pc = "addFile", !.op = "addFile",
                                                   !.this = 1, !.file = file]]
   /\ UNCHANGED <<directories, mutex, lastOp, threadFrame>>

(* Thread t deletes File 'file': the destructor calls fileDeleted(this),
   whose first statement takes the size of the file off with operator-= *)
CallFileDeleted(t, file) ==
   /\ ctx[t].pc = "idle"
   /\ files[file].dir # 0
   /\ \A u \in Threads : ctx[u].file # file
   /\ ctx' = [ctx EXCEPT ![t] = [IdleThread EXCEPT !.pc = "operator-=", !.op = "fileDeleted",
                                                   !.this = files[file].dir, !.file = file]]
   /\ UNCHANGED <<directories, files, mutex, lastOp, threadFrame>>

(* 'QMutexLocker locker(&this->mutex)' at the top of createSubDirectory,
   getSubDir, append, getFiles, addFile and operator-= *)
AcquireMutex(t) ==
   /\ ctx[t].pc \in {"createSubDirectory", "getSubDir", "append", "getFiles", "addFile",
                     "operator-="}
   /\ CanLock(ctx[t].this, t)
   /\ mutex' = Lock(mutex, ctx[t].this, t)
   /\ ctx' = [ctx EXCEPT ![t].pc = AfterLock(@)]
   /\ UNCHANGED <<directories, files, lastOp, threadFrame>>

(* getSubDir: the loop over subDirs and the return *)
GetSubDirScan(t) ==
   /\ ctx[t].pc = "getSubDir_scan"
   /\ lastOp' = ListAccess("subDirs", "read", t, ctx[t].this)
   /\ mutex' = Unlock(mutex, ctx[t].this)
   /\ ctx' = [ctx EXCEPT ![t].subDir = getSubDir(directories, ctx[t].this, ctx[t].name),
                         ![t].pc = "createSubDirectory_test"]
   /\ UNCHANGED <<directories, files, threadFrame>>

(* 'if (Directory* subDir = this->getSubDir(name)) return subDir' *)
CreateTest(t) ==
   /\ ctx[t].pc = "createSubDirectory_test"
   /\ IF ctx[t].subDir # 0
      THEN /\ mutex' = Unlock(mutex, ctx[t].this)
           /\ ctx' = [ctx EXCEPT ![t].pc = "idle", ![t].ret = ctx[t].subDir]
           /\ lastOp' = Op(ctx[t].op, "existing", <<t, ctx[t].name, ctx[t].subDir>>)
      ELSE /\ ctx' = [ctx EXCEPT ![t].pc = "new Directory"]
           /\ UNCHANGED <<mutex, lastOp>>
   /\ UNCHANGED <<directories, files, threadFrame>>

(* 'new Directory(this, name)' up to 'this->parent->append(this)': the new
   Directory locks its own mutex and, when asked to, makes the directory on
   the disk *)
NewDirectory(t) ==
   /\ ctx[t].pc = "new Directory"
   /\ directories' = Append(directories, Directory(ctx[t].this, ctx[t].name))
   /\ mutex' = Append(mutex, [owner |-> t, depth |-> 1])
   /\ ctx' = [ctx EXCEPT ![t].pc = "append", ![t].subDir = Len(directories) + 1]
   /\ UNCHANGED <<files, lastOp, threadFrame>>

(* 'this->subDirs << dir' and the ends of append and of the constructor *)
AppendPush(t) ==
   /\ ctx[t].pc = "append_push"
   /\ lastOp' = ListAccess("subDirs", "write", t, ctx[t].this)
   /\ directories' = append(directories, ctx[t].this, ctx[t].subDir)
   /\ mutex' = Unlock(Unlock(mutex, ctx[t].this), ctx[t].subDir)
   /\ ctx' = [ctx EXCEPT ![t].pc = "createSubDirectory_return"]
   /\ UNCHANGED <<files, threadFrame>>

(* The return of the new Directory *)
CreateReturn(t) ==
   /\ ctx[t].pc = "createSubDirectory_return"
   /\ mutex' = Unlock(mutex, ctx[t].this)
   /\ ctx' = [ctx EXCEPT ![t].pc = "idle", ![t].ret = ctx[t].subDir]
   /\ lastOp' = Op(ctx[t].op, "created", <<t, ctx[t].name, ctx[t].subDir>>)
   /\ UNCHANGED <<directories, files, threadFrame>>

(* 'return this->files' *)
GetFilesCopy(t) ==
   /\ ctx[t].pc = "getFiles_copy"
   /\ lastOp' = ListAccess("files", "read", t, ctx[t].this)
   /\ mutex' = Unlock(mutex, ctx[t].this)
   /\ ctx' = [ctx EXCEPT ![t].pc = "idle"]
   /\ UNCHANGED <<directories, files, threadFrame>>

(* The body of addFile *)
AddFileBody(t) ==
   /\ ctx[t].pc = "addFile_body"
   /\ lastOp' = ListAccess("files", "write", t, ctx[t].this)
   /\ directories' = addFile(directories, files, ctx[t].this, ctx[t].file)
   /\ mutex' = Unlock(mutex, ctx[t].this)
   /\ ctx' = [ctx EXCEPT ![t] = IdleThread]
   /\ UNCHANGED <<files, threadFrame>>

(* The body of operator-= on a Directory without parent *)
MinusBody(t) ==
   /\ ctx[t].pc = "operator-=_body"
   /\ directories' = minus(directories, ctx[t].this, files[ctx[t].file].size)
   /\ mutex' = Unlock(mutex, ctx[t].this)
   /\ ctx' = [ctx EXCEPT ![t].pc = "fileDeleted_removeOne"]
   /\ UNCHANGED <<files, lastOp, threadFrame>>

(* 'this->files.removeOne(file)', the last statement of fileDeleted *)
FileDeletedRemoveOne(t) ==
   /\ ctx[t].pc = "fileDeleted_removeOne"
   /\ lastOp' = ListAccess("files", "write", t, ctx[t].this)
   /\ directories' = [directories EXCEPT ![ctx[t].this].files = RemoveOne(@, ctx[t].file)]
   /\ files' = [files EXCEPT ![ctx[t].file].dir = 0]
   /\ ctx' = [ctx EXCEPT ![t] = IdleThread]
   /\ UNCHANGED <<mutex, threadFrame>>

(* 'dirsToVisit(dir->subDirs)' of the constructor of DirIterator and
   'dirsToVisit.append(dir->subDirs)' of next: thread t copies the list of
   Directory d *)
DirIteratorNext(t, d) ==
   /\ ctx[t].pc = "idle"
   /\ lastOp' = ListAccess("subDirs", "read", t, d)
   /\ ctx' = [ctx EXCEPT ![t] = [IdleThread EXCEPT !.op = "DirIterator", !.this = d]]
   /\ UNCHANGED <<directories, files, mutex, threadFrame>>

(* A shared directory with one file; a second File is not created yet *)
InitThreads ==
   /\ InitManager
   /\ persisted = Missing
   /\ savedFrom = NothingSaved
   /\ env = "cache"
   /\ mutexNumberOfDownload = "none"
   /\ cacheMutex = "none"
   /\ files = <<[size |-> 1, dir |-> 1], [size |-> 2, dir |-> 0]>>
   /\ directories = <<[Root("shared 1") EXCEPT !.files = <<1>>, !.size = 1]>>
   /\ mutex = <<FreeMutex>>
   /\ ctx = [t \in Threads |-> IdleThread]

NextThreads ==
   \/ \E t \in Threads, name \in DirNames, physically \in BOOLEAN :
         CallCreateSubDirectory(t, name, physically)
   \/ \E t \in Threads : CallGetFiles(t)
   \/ \E t \in Threads, file \in 1..Len(files) : CallAddFile(t, file)
   \/ \E t \in Threads, file \in 1..Len(files) : CallFileDeleted(t, file)
   \/ \E t \in Threads : AcquireMutex(t)
   \/ \E t \in Threads : GetSubDirScan(t)
   \/ \E t \in Threads : CreateTest(t)
   \/ \E t \in Threads : NewDirectory(t)
   \/ \E t \in Threads : AppendPush(t)
   \/ \E t \in Threads : CreateReturn(t)
   \/ \E t \in Threads : GetFilesCopy(t)
   \/ \E t \in Threads : AddFileBody(t)
   \/ \E t \in Threads : MinusBody(t)
   \/ \E t \in Threads : FileDeletedRemoveOne(t)
   \/ \E t \in Threads, d \in 1..Len(directories) : DirIteratorNext(t, d)

SpecThreads == InitThreads /\ [][NextThreads]_vars

(* The calls of createSubDirectory and physicallyCreateSubDirectory *)
CreateOps == {"createSubDirectory", "physicallyCreateSubDirectory"}

(* Thread t is at a QMutexLocker on a mutex it holds already *)
RelocksOwnMutex(t) ==
   /\ ctx[t].pc \in {"createSubDirectory", "getSubDir", "append", "getFiles", "addFile",
                     "operator-="}
   /\ mutex[ctx[t].this].owner = t

(* C24: whatever the interleaving of the calls of createSubDirectory and
   physicallyCreateSubDirectory of two threads on one Directory, the
   Directory has at most one sub-directory of each name, a call that has
   returned gave a sub-directory of the Directory with the name it asked
   for, two calls that asked for the same name gave the same Directory, and
   no thread is stopped at a lock of the mutex it holds *)
C24_OneSubDirPerName ==
   /\ \A d \in 1..Len(directories) :
         \A i, j \in 1..Len(directories[d].subDirs) :
            directories[directories[d].subDirs[i]].name
               = directories[directories[d].subDirs[j]].name => i = j
   /\ lastOp.op \in CreateOps =>
         /\ Contains(directories[1].subDirs, lastOp.arg[3])
         /\ directories[lastOp.arg[3]].name = lastOp.arg[2]
   /\ \A t, u \in Threads :
         (/\ ctx[t].pc = "idle" /\ ctx[u].pc = "idle"
          /\ ctx[t].op \in CreateOps /\ ctx[u].op \in CreateOps
          /\ ctx[t].name = ctx[u].name) => ctx[t].ret = ctx[u].ret
   /\ \A t \in Threads : RelocksOwnMutex(t) => CanLock(ctx[t].this, t)

(* One thread is appending the sub-directory it has made while the other
   waits at the top of a call for the same name *)
C24_Witness ==
   /\ ctx["main"].pc = "append_push"
   /\ ctx["updater"].pc = "createSubDirectory"
   /\ ctx["updater"].name = ctx["main"].name
   /\ ctx["updater"].op = "physicallyCreateSubDirectory"

(* C26: every read and every modification of the lists files and subDirs
   of a Directory is made by a thread that holds the mutex of that
   Directory, and no thread is about to read the files of a Directory
   while another is about to modify them *)
C26_ListsOnlyUnderMutex ==
   /\ lastOp.op \in {"files", "subDirs"} => lastOp.arg[3]
   /\ \A t, u \in Threads :
         ~(/\ ctx[t].pc = "getFiles_copy"
           /\ ctx[u].pc = "fileDeleted_removeOne"
           /\ ctx[u].this = ctx[t].this)

-----------------------------------------------------------------------------
(* The removal of a shared directory while the FileUpdater thread scans:
   the main thread takes the mutex of the cache, asks the scan to stop and
   waits for it, and the scan enumerates the tree with getSubDirs() and
   getFiles(). *)

ScanThread == [pc |-> "idle", this |-> 0, dirsToVisit |-> <<>>, toStop |-> FALSE]

(* Mutant of CanEnumerate: the commented-out
   'QMutexLocker locker(&this->cache->getMutex())' is in force *)
CanEnumerate_CacheMutexToo(t, d) == CanLock(d, t) /\ cacheMutex \in {"none", t}

(* What getSubDirs() and getFiles() wait for: 'QMutexLocker
   locker(&this->mutex)' and nothing else *)
CanEnumerate(t, d) == CanLock(d, t)

(* The sub-directories of Directory k in a tree given by the parent of
   each Directory *)
ChildrenOf(p, n, k) == SelectSeq([j \in 1..n |-> j], LAMBDA j : j > 1 /\ p[j] = k)

(* The trees of at most MaxDirectories directories in which a Directory has
   at most one sub-directory of each name of DirNames *)
Trees ==
   UNION {{[k \in 1..n |->
              [name |-> IF k = 1 THEN "shared 1"
                        ELSE IF ChildrenOf(p, n, p[k])[1] = k THEN "a" ELSE "b",
               parent |-> IF k = 1 THEN 0 ELSE p[k],
               subDirs |-> ChildrenOf(p, n, k),
               files |-> <<>>,
               size |-> 0]] :
            p \in {q \in [2..n -> 1..n] :
                     /\ \A k \in 2..n : q[k] < k
                     /\ \A k \in 1..n : Len(ChildrenOf(q, n, k)) <= Cardinality(DirNames)}} :
          n \in 1..MaxDirectories}

teardownFrame ==
   <<mgrVars, storeVars, env, schedVars, mutexNumberOfDownload, directories, files, lastOp>>

(* The FileUpdater thread starts to scan the shared directory *)
StartScan ==
   /\ ctx["updater"].pc = "idle"
   /\ ctx["main"].pc # "waiting"
   /\ ctx' = [ctx EXCEPT !["updater"] = [ScanThread EXCEPT !.pc = "loop", !.dirsToVisit = <<1>>]]
   /\ UNCHANGED <<mutex, cacheMutex, teardownFrame>>

(* The loop of the scan: it ends when it is asked to stop or when no
   directory is left, and takes the next directory otherwise *)
ScanLoop ==
   /\ ctx["updater"].pc = "loop"
   /\ LET u == ctx["updater"]
      IN  ctx' = [ctx EXCEPT !["updater"] =
                    IF u.toStop \/ u.dirsToVisit = <<>>
                    THEN ScanThread
                    ELSE [u EXCEPT !.pc = "getSubDirs", !.this = Head(u.dirsToVisit),
                                   !.dirsToVisit = Tail(u.dirsToVisit)]]
   /\ UNCHANGED <<mutex, cacheMutex, teardownFrame>>

(* The QMutexLocker of getSubDirs() and of getFiles() *)
EnumerateLock ==
   /\ ctx["updater"].pc \in {"getSubDirs", "getFiles"}
   /\ CanEnumerate("updater", ctx["updater"].this)
   /\ mutex' = Lock(mutex, ctx["updater"].this, "updater")
   /\ ctx' = [ctx EXCEPT !["updater"].pc = IF @ = "getSubDirs" THEN "getSubDirs_copy"
                                           ELSE "getFiles_copy"]
   /\ UNCHANGED <<cacheMutex, teardownFrame>>

(* 'return this->subDirs': the copy is made, the mutex is released *)
GetSubDirsCopy ==
   /\ ctx["updater"].pc = "getSubDirs_copy"
   /\ mutex' = Unlock(mutex, ctx["updater"].this)
   /\ ctx' = [ctx EXCEPT !["updater"].dirsToVisit = @ \o directories[ctx["updater"].this].subDirs,
                         !["updater"].pc = "getFiles"]
   /\ UNCHANGED <<cacheMutex, teardownFrame>>

(* 'return this->files' on the scan *)
ScanGetFilesCopy ==
   /\ ctx["updater"].pc = "getFiles_copy"
   /\ mutex' = Unlock(mutex, ctx["updater"].this)
   /\ ctx' = [ctx EXCEPT !["updater"].pc = "loop"]
   /\ UNCHANGED <<cacheMutex, teardownFrame>>

(* The main thread takes the mutex of the cache *)
MainLockCache ==
   /\ ctx["main"].pc = "idle"
   /\ cacheMutex = "none"
   /\ cacheMutex' = "main"
   /\ ctx' = [ctx EXCEPT !["main"].pc = "locked"]
   /\ UNCHANGED <<mutex, teardownFrame>>

(* The main thread, with the mutex of the cache, enters an operation of
   Directory d *)
MainLockDirectory(d) ==
   /\ ctx["main"].pc = "locked"
   /\ CanLock(d, "main")
   /\ mutex' = Lock(mutex, d, "main")
   /\ ctx' = [ctx EXCEPT !["main"].pc = "in Directory", !["main"].this = d]
   /\ UNCHANGED <<cacheMutex, teardownFrame>>

(* and leaves it *)
MainUnlockDirectory ==
   /\ ctx["main"].pc = "in Directory"
   /\ mutex' = Unlock(mutex, ctx["main"].this)
   /\ ctx' = [ctx EXCEPT !["main"].pc = "locked", !["main"].this = 0]
   /\ UNCHANGED <<cacheMutex, teardownFrame>>

(* The main thread asks the scan to stop and waits for it *)
MainStopScanning ==
   /\ ctx["main"].pc = "locked"
   /\ ctx' = [ctx EXCEPT !["main"].pc = "waiting", !["updater"].toStop = TRUE]
   /\ UNCHANGED <<mutex, cacheMutex, teardownFrame>>

(* The scan has stopped: the main thread goes on and releases the mutex of
   the cache *)
MainScanStopped ==
   /\ ctx["main"].pc = "waiting"
   /\ ctx["updater"].pc = "idle"
   /\ cacheMutex' = "none"
   /\ ctx' = [ctx EXCEPT !["main"].pc = "idle"]
   /\ UNCHANGED <<mutex, teardownFrame>>

InitTeardown ==
   /\ InitManager
   /\ persisted = Missing
   /\ savedFrom = NothingSaved
   /\ env = "cache"
   /\ mutexNumberOfDownload = "none"
   /\ cacheMutex = "none"
   /\ files = <<>>
   /\ directories \in Trees
   /\ mutex = [d \in 1..Len(directories) |-> FreeMutex]
   /\ ctx = [t \in Threads |-> ScanThread]

NextTeardown ==
   \/ StartScan
   \/ ScanLoop
   \/ EnumerateLock
   \/ GetSubDirsCopy
   \/ ScanGetFilesCopy
   \/ MainLockCache
   \/ \E d \in 1..Len(directories) : MainLockDirectory(d)
   \/ MainUnlockDirectory
   \/ MainStopScanning
   \/ MainScanStopped

(* Each thread goes on when it can *)
TeardownFairness ==
   /\ WF_vars(ScanLoop)
   /\ WF_vars(EnumerateLock)
   /\ WF_vars(GetSubDirsCopy)
   /\ WF_vars(ScanGetFilesCopy)
   /\ WF_vars(MainUnlockDirectory)
   /\ WF_vars(MainScanStopped)

SpecTeardown == InitTeardown /\ [][NextTeardown]_vars /\ TeardownFairness

(* C27: the scan never holds the mutex of the cache and holds the mutex of
   a Directory only inside getSubDirs() or getFiles(); and whenever the
   main thread waits, with the mutex of the cache, for the scan to stop,
   the scan stops and the main thread goes on *)
C27_TeardownCompletes ==
   /\ [](/\ cacheMutex # "updater"
         /\ \A d \in 1..Len(mutex) :
               mutex[d].owner = "updater" =>
                  /\ ctx["updater"].pc \in {"getSubDirs_copy", "getFiles_copy"}
                  /\ ctx["updater"].this = d)
   /\ (ctx["main"].pc = "waiting") ~> (ctx["updater"].pc = "idle" /\ ctx["main"].pc = "idle")

(* The main thread waits with the mutex of the cache while the scan is
   about to enter getSubDirs() on a sub-directory *)
C27_Witness ==
   /\ ctx["main"].pc = "waiting"
   /\ cacheMutex = "main"
   /\ ctx["updater"].pc = "getSubDirs"
   /\ ctx["updater"].this > 1

====
